---- MODULE Spec2Model ----
(***************************************************************************)
(* Connection-state reconciliation and session persistence of the         *)
(* evolution-api fork: the instance registry (WAMonitoringService), the   *)
(* restoration passes (SessionRestorationService), the health sweeps      *)
(* (ConnectionHealthService) and the per-instance connection state with   *)
(* its verifying getter.                                                  *)
(*                                                                         *)
(* Scheduling model: one JavaScript event loop.  A handler runs without   *)
(* interruption up to an await of real I/O (cache, database, transport);  *)
(* every such await is a step boundary of the model, and any other task   *)
(* may run between two steps of one task.                                 *)
(***************************************************************************)
EXTENDS Integers, Sequences, FiniteSets, TLC

\* ------------------------------------------------------------------ bounds
NumInstances == 2      \* instance names 1..NumInstances
MaxPasses == 2         \* restoration passes that may be in progress at once
MaxObjects == 3        \* Instance objects created before the model stops creating
MaxTicks == 5          \* cron periods the clock may advance under SpecTimeout
HealthTicks == 1       \* cron periods the clock may advance under SpecHealth and SpecSweep
MaxCount == 2          \* the counters of downgrades, reconnects, ... saturate here
MaxSweeps == 2         \* health sweeps that may be in progress at once
NumTasks == 2          \* callers of the key store that may be suspended in it at once
MaxKeys == 2           \* keys that an earlier run left in the cache

Names == 1..NumInstances
Passes == 1..MaxPasses
Sweeps == 1..MaxSweeps
None == 0

\* ------------------------------------------------------- program constants
HEALTH_CHECK_INTERVAL == 30000   \* '*/30 * * * * *', in ms
CONNECTION_TIMEOUT == 120000     \* ms
CONNECTING_TIME_TTL == 300       \* s, TTL of the connecting_time:<name> key
DEBOUNCE_DELAY == 5000           \* ms, the debounce after a message was sent
CACHE_REDIS_TTL == 604800        \* s, conf.TTL
MARKER_TTL == 300                \* s, TTL of the restored:<name> key
PROBE_TTL == 5                   \* s, TTL of the availability probe key

\* Date.now() at the first cron instant of a run; a connect attempt may have been
\* started CONNECTION_TIMEOUT before it.
StartTime == CONNECTION_TIMEOUT + HEALTH_CHECK_INTERVAL
EndTime == StartTime + MaxTicks * HEALTH_CHECK_INTERVAL
HealthEndTime == StartTime + HealthTicks * HEALTH_CHECK_INTERVAL
NoTime == 0 - 1                           \* null for a timestamp

\* ------------------------------------------------------------------ state
VARIABLES
  waInstances,     \* WAMonitoringService.waInstances: name -> Instance object id, None when absent
  liveObjs,        \* name -> set of Instance objects created by channelController.init and connected
  nextObj,         \* fresh object ids
  dbStatus,        \* durable record: name -> "open" | "connecting" | "close"
  restoredMarker,  \* cache key restored:<name>
  rpc,             \* restoration pass -> position in restoreFromDatabase / restoreInstance / setInstance
  rqueue,          \* restoration pass -> records still to restore (result of findMany)
  robj,            \* restoration pass -> the Instance it created and is connecting
  rcount,          \* restoration pass -> its `restored` counter
  inst,            \* name -> the Instance: its state record, client, transport and cache marker
  now,             \* Date.now(), ms
  cronFiredAt,     \* the last cron instant whose callback has been started
  hpc,             \* sweep -> its position: "idle", "loop" or the await it is suspended in
  hqueue,          \* sweep -> its snapshot Object.keys(waInstances): names still to check
  hsnapshot,       \* sweep -> the names of the snapshot
  hchecked,        \* sweep -> the names of the snapshot whose checkInstanceHealth has returned
  hstart,          \* sweep -> the cron instant that started it
  hobs,            \* sweep -> Date.now() when it read the current instance's connectionStatus
  hthrown,         \* sweep -> the names whose check or recovery raised in this sweep
  running,         \* the sweep that holds the event loop between two awaits, or None
  redis,           \* the Redis server: logical key of module 'instance' -> its entry
  task,            \* caller task -> the RedisCache operation it is suspended in
  kstep,           \* what the last step of the key store did
  kwritten,        \* the last write a shape repair completed, until it is legitimately replaced
  conf,            \* configuration: CACHE.REDIS.ENABLED && SAVE_INSTANCES, DATABASE.SAVE_DATA.INSTANCE
  spc,             \* restoreAllSessions: its position
  squeue,          \* restoreAllSessions: the keys the scan or the loop over the keys has still to visit
  scount,          \* restoreAllSessions: restoredCount
  slog,            \* what the last step of restoreAllSessions did
  vqueue,          \* verifyRestoredConnections: the names whose marker it has still to read
  vtimer,          \* name -> pending timers of verifyInstanceConnection
  vdel,            \* name -> who has a delete of restored:<name> in flight
  vlog,            \* how the last verifyInstanceConnection ended and whether the marker was left
  evict,           \* the timer of delInstanceTime for one instance: its position and what it did
  shut,            \* GracefulShutdownService: its flag, its position, the process
  send             \* what the last validateInstanceReady of a send decided

restoreVars == <<waInstances, liveObjs, nextObj, restoredMarker, rpc, rqueue, robj, rcount>>
sweepVars == <<hpc, hqueue, hsnapshot, hchecked, hstart, hobs, hthrown, running>>
healthVars == <<inst, now, cronFiredAt, hpc, hqueue, hsnapshot, hchecked, hstart, hobs, hthrown, running>>

baseVars == <<waInstances, liveObjs, nextObj, dbStatus, restoredMarker, rpc, rqueue, robj, rcount,
              inst, now, cronFiredAt, hpc, hqueue, hsnapshot, hchecked, hstart, hobs, hthrown, running>>
storeVars == <<redis, task, kstep, kwritten, conf>>
startVars == <<spc, squeue, scount, slog, vqueue, vtimer, vdel, vlog>>
opsVars == <<evict, shut, send>>
laterVars == <<storeVars, startVars, opsVars>>

vars == <<waInstances, liveObjs, nextObj, dbStatus, restoredMarker, rpc, rqueue, robj, rcount,
          inst, now, cronFiredAt, hpc, hqueue, hsnapshot, hchecked, hstart, hobs, hthrown, running,
          laterVars>>

Min(a, b) == IF a < b THEN a ELSE b

RECURSIVE SeqOfSet(_)
SeqOfSet(S) == IF S = {} THEN <<>>
               ELSE LET x == CHOOSE y \in S : \A z \in S : y <= z
                    IN <<x>> \o SeqOfSet(S \ {x})

\* ------------------------------------------------------------- the instance
\* One Instance (the channel service object) with what the transport and the cache
\* hold for it.
\*   state      stateConnection.state
\*   client     this.client is not null
\*   user       this.client.user is set (authenticated identity)
\*   wsOpen     client.ws.readyState === 1
\*   attempt    a connect attempt is in flight at the transport
\*   pending    connection.update events emitted by the transport and not yet handled
\*   upc, npc   the connectionUpdate('open') / no.connection handler suspended in its await
\*   connectingTime        cache key connecting_time:<name>
\*   lastMessageSentTime   when the last send completed
\* The g_ fields are history variables of the checks: they record what the code did
\* and the code never reads them.
\*   g_tags     what the last handler step that touched the instance did to it:
\*                "stale"      it applied a write decided on an observation older than g_ts
\*                "direct"     a component other than the instance assigned state
\*                "vfc"        the verification changed a 'connecting' state
\*                "early"      a health sweep downgraded inside the debounce window of a send
\*                "downAgain"  it downgraded open->close again in the same outage
\*                "reconAgain" the health monitor triggered a reconnect again in the same outage
\*                "read", "corrected"   it was a read of connectionStatus / that changed state
\*                "fdChecked"  a sweep finished the check of a false disconnect
\*                "probed"     the open branch of a sweep ran the liveness probe
\*   g_ts       when the observation behind the last write of state was made
\*   g_outage   the transport went not-ready under declared state 'open' and has not recovered
\*   g_down, g_recon   a downgrade / a health reconnect has happened in this outage
\*   g_scen     connecting since StartTime with the marker of StartTime and no transport event
\*   g_restarts, g_restartBy   timeout restarts by the health monitor in that scenario / the
\*              cron instant of the sweep that made the last one
\*   g_falseDisc, g_corrections   the sweep in progress met a false disconnect / correction
\*              webhooks sent for it
NewInstance(integ, st, connected) ==
  [ integration |-> integ, state |-> st,
    client |-> connected, user |-> connected, wsOpen |-> connected,
    attempt |-> (st = "connecting"), pending |-> {}, upc |-> "none", npc |-> "none",
    connectingTime |-> IF st = "connecting" THEN StartTime ELSE NoTime,
    lastMessageSentTime |-> NoTime,
    g_tags |-> {}, g_ts |-> StartTime, g_outage |-> FALSE, g_down |-> FALSE, g_recon |-> FALSE,
    g_scen |-> (st = "connecting" /\ ~connected), g_restarts |-> 0, g_restartBy |-> NoTime,
    g_falseDisc |-> FALSE, g_corrections |-> 0 ]

\* A handler step starts on the instance.
Begin(i) == [i EXCEPT !.g_tags = {}]

Baileys == "WHATSAPP-BAILEYS"

\* The components that are not the instance's own state handling.
DirectWriters == {"health", "noConnection"}

\* Whether t is inside the debounce window of the last completed send.
InDebounceWindow(i, t) ==
  i.lastMessageSentTime # NoTime /\ t - i.lastMessageSentTime < DEBOUNCE_DELAY

\* An assignment `stateConnection.state = st` by `by` at time t, decided on an
\* observation made at ts.  The code keeps no timestamp and compares none.
WriteState(i, st, by, ts, t) ==
  LET down == i.state = "open" /\ st = "close" IN
  [i EXCEPT !.state = st,
            !.g_ts = ts,
            !.g_scen = @ /\ by # "verify",
            !.g_down = @ \/ (down /\ i.g_outage),
            !.g_tags = (@ \ {"read", "corrected"})
                       \cup (IF ts < i.g_ts THEN {"stale"} ELSE {})
                       \cup (IF by \in DirectWriters THEN {"direct"} ELSE {})
                       \cup (IF by = "verify" /\ i.state = "connecting" /\ st # "connecting"
                             THEN {"vfc"} ELSE {})
                       \cup (IF down /\ by = "health" /\ InDebounceWindow(i, t)
                             THEN {"early"} ELSE {})
                       \cup (IF down /\ i.g_outage /\ i.g_down THEN {"downAgain"} ELSE {})]

\* A verification that leaves 'connecting' alone (not what the code does).
VerifyKeepsConnecting(i, t) ==
  LET currentState == i.state
      i1 == IF i.client /\ i.user /\ currentState = "close"
            THEN WriteState(i, "open", "verify", t, t) ELSE i
  IN IF (~i.client \/ ~i.user) /\ currentState = "open"
     THEN WriteState(i1, "close", "verify", t, t) ELSE i1

\* verifyConnectionStatusConsistency: both tests read the state captured on entry.
VerifyConnectionStatusConsistency(i, t) ==
  LET currentState == i.state
      i1 == IF i.client /\ i.user /\ currentState # "open"
            THEN WriteState(i, "open", "verify", t, t) ELSE i
  IN IF (~i.client \/ ~i.user) /\ currentState = "open"
     THEN WriteState(i1, "close", "verify", t, t) ELSE i1

\* get connectionStatus(): verify, then return stateConnection.
ConnectionStatus(i, t) == VerifyConnectionStatusConsistency(i, t)

\* A socket test that answers that any socket is ready.
IsWebSocketHealthyAlways(i) == TRUE

\* isWebSocketHealthy(client)
IsWebSocketHealthy(i) == i.client /\ i.wsOpen

\* performPingTest(client): the user lookup settles at once, the 10 s timer never wins.
PerformPingTest(i) == i.client /\ i.wsOpen /\ i.user

\* client.ws.close() on the client the instance holds: an open socket closes and the
\* transport reports it.
WsClose(i) ==
  IF i.client /\ i.wsOpen
  THEN [i EXCEPT !.wsOpen = FALSE, !.pending = @ \cup {"close"}]
  ELSE i

\* setConnectingTime, run by the instance.connecting listener.
SetConnectingTime(i, t) == [i EXCEPT !.connectingTime = t]

\* clearConnectingTime
ClearConnectingTime(i) == [i EXCEPT !.connectingTime = NoTime]

\* getConnectingTime: the key is gone once its TTL has run out.
GetConnectingTime(i, t) ==
  IF i.connectingTime # NoTime /\ t - i.connectingTime < CONNECTING_TIME_TTL * 1000
  THEN i.connectingTime ELSE NoTime

\* A timeout test that fires at exactly CONNECTION_TIMEOUT (not what the code does).
ConnectionTimedOutAtLeast(connectingTime, t) ==
  connectingTime # NoTime /\ connectingTime # 0 /\ t - connectingTime >= CONNECTION_TIMEOUT

\* The timeout test of the connecting branch (null and 0 are falsy).
ConnectionTimedOut(connectingTime, t) ==
  connectingTime # NoTime /\ connectingTime # 0 /\ t - connectingTime > CONNECTION_TIMEOUT

\* connectToWhatsapp up to its first await: the state is set to 'connecting', the
\* connecting update is processed and instance.connecting records the connect start.
ConnectToWhatsapp(i, by, t) ==
  LET i1 == WriteState(i, "connecting", "connectToWhatsapp", t, t)
      i2 == SetConnectingTime(i1, t)
  IN [i2 EXCEPT !.attempt = TRUE,
                !.g_recon = @ \/ (i.g_outage /\ by = "health"),
                !.g_tags = @ \cup (IF i.g_outage /\ by = "health" /\ i.g_recon
                                   THEN {"reconAgain"} ELSE {})]

\* The health monitor before its first cron instant.
InitSweeps ==
  /\ now = StartTime
  /\ cronFiredAt = StartTime - HEALTH_CHECK_INTERVAL
  /\ hpc = [s \in Sweeps |-> "idle"]
  /\ hqueue = [s \in Sweeps |-> <<>>]
  /\ hsnapshot = [s \in Sweeps |-> {}]
  /\ hchecked = [s \in Sweeps |-> {}]
  /\ hstart = [s \in Sweeps |-> NoTime]
  /\ hobs = [s \in Sweeps |-> NoTime]
  /\ hthrown = [s \in Sweeps |-> {}]
  /\ running = None

\* No restoration pass in progress.
InitPasses ==
  /\ nextObj = 1
  /\ restoredMarker = [n \in Names |-> FALSE]
  /\ rpc = [p \in Passes |-> "idle"]
  /\ rqueue = [p \in Passes |-> <<>>]
  /\ robj = [p \in Passes |-> None]
  /\ rcount = [p \in Passes |-> 0]

\* ------------------------------------------------------------ the key store
\* A key is a string; the model writes it as the sequence of the pieces that the code
\* tests for: words, the separators ":" and "-", and the name of the instance.
NameToks == <<"alice", "bob", "carol", "dave">>
InstanceName(n) == NameToks[n]

\* an instance's own key: its name, or its id (a UUID: words joined by "-")
NameKey(n) == <<InstanceName(n)>>
IdKey(n) == <<InstanceName(n), "-", "uuid">>
\* `connecting_time:${instanceName}`
ConnectingTimeKey(n) == <<"connecting_time", ":", InstanceName(n)>>
\* `restored:${instanceName}`
RestoredKey(n) == <<"restored", ":", InstanceName(n)>>
\* `auth:${instanceName}`
AuthKey(n) == <<"auth", ":", InstanceName(n)>>
\* `test:${instanceName}:${Date.now()}`
TestKey(n) == <<"test", ":", InstanceName(n), ":", "now">>

\* String.prototype.includes
Includes(s, pat) ==
  \E k \in 1..(Len(s) - Len(pat) + 1) : SubSeq(s, k, k + Len(pat) - 1) = pat

\* RedisCache.buildKey for the module 'instance'
BuildKey(key) == <<"evolution", ":", "instance", ":">> \o key

\* the values the callers store
Null == [kind |-> "null"]
Undefined == [kind |-> "undefined"]
Text(s) == [kind |-> "text", text |-> s]
InstanceData(n, withId, st) ==
  [kind |-> "instance", instanceName |-> InstanceName(n),
   instanceId |-> IF withId THEN IdKey(n) ELSE <<>>, connectionStatus |-> st]

\* JSON.stringify and JSON.parse on these values
Stringify(v) == [json |-> v]
Parse(str) == str.json

Fields == {"creds", "keys"}
NoField == "-"
NoStr == [json |-> Undefined]           \* no string stored
NoTtl == 0 - 1                          \* the optional argument ttl left out
EmptyHash == [f \in Fields |-> NoStr]

\* An entry of the Redis server; ttl 0: the key does not expire.
NoKey == [type |-> "none", str |-> NoStr, hash |-> EmptyHash, ttl |-> 0]
StringEntry(str, ttl) == [type |-> "string", str |-> str, hash |-> EmptyHash, ttl |-> ttl]
HashEntry(h, ttl) == [type |-> "hash", str |-> NoStr, hash |-> h, ttl |-> ttl]

\* `client.setEx(k, ttl || conf.TTL, v)` whatever ttl is.
SetExpiryAlways(ttl) == IF ttl = 0 \/ ttl = NoTtl THEN CACHE_REDIS_TTL ELSE ttl

\* `ttl === 0 ? client.set(k, v) : client.setEx(k, ttl || conf.TTL, v)`: the expiry
\* the stored key gets.
SetExpiry(ttl) == IF ttl = 0 THEN 0 ELSE IF ttl = NoTtl THEN CACHE_REDIS_TTL ELSE ttl

\* The shape an operation of RedisCache works on.
Shape(op) == IF op \in {"get", "set"} THEN "string" ELSE "hash"

\* The server answers WRONGTYPE: GET of a hash, HGET and HSET of a string. SET and
\* SETEX replace a key of any type; the handler of RedisCache.set and the scenario
\* 'String operation on hash key' of the test suite provide for a server that refuses
\* them, so `refuse` chooses between the two.
WrongType(e, op, refuse) ==
  CASE op = "get" -> e.type = "hash"
    [] op \in {"hGet", "hSet"} -> e.type = "string"
    [] op = "set" -> e.type = "hash" /\ refuse
    [] OTHER -> FALSE

\* The entry after client.set / client.setEx / client.hSet of the operation tk.
Written(e, tk) ==
  IF tk.op = "set"
  THEN StringEntry(Stringify(tk.value), SetExpiry(tk.ttl))
  ELSE HashEntry([(IF e.type = "hash" THEN e.hash ELSE EmptyHash) EXCEPT
                    ![tk.field] = Stringify(tk.value)],
                 IF e.type = "hash" THEN e.ttl ELSE 0)

\* `result ? JSON.parse(result) : null`
ReadResult(e, tk) ==
  IF tk.op = "get"
  THEN IF e.type = "string" THEN Parse(e.str) ELSE Null
  ELSE IF e.type = "hash" /\ e.hash[tk.field] # NoStr THEN Parse(e.hash[tk.field]) ELSE Null

IdleTask ==
  [pc |-> "idle", by |-> "caller", n |-> None, op |-> "none", key |-> <<>>, field |-> NoField,
   value |-> Null, ttl |-> 0, res |-> Null, conflict |-> FALSE, repaired |-> FALSE]
NewOp(op, key, field, value, ttl) ==
  [IdleTask EXCEPT !.op = op, !.key = key, !.field = field, !.value = value, !.ttl = ttl]

Returns(tk, res) == [tk EXCEPT !.pc = "ret", !.res = res]
Raises(tk) == [tk EXCEPT !.pc = "raised"]

\* The repair without the catch of handleWrongTypeError.
AfterHandlerErrorRethrown(tk) == Raises(tk)

\* The catch of handleWrongTypeError: whatever the repair raised is logged, the
\* operation returns null.
AfterHandlerError(tk) == Returns(tk, Null)

\* get / hGet / set / hSet / delete up to the answer of their first command. An error
\* other than WRONGTYPE (fail) is swallowed by the reads and by delete and rethrown
\* by the writes.
CallStep(r, tk, fail, refuse) ==
  LET e == r[tk.key] IN
    IF fail
    THEN [r |-> r, tk |-> IF tk.op \in {"set", "hSet"} THEN Raises(tk) ELSE Returns(tk, Null)]
    ELSE IF WrongType(e, tk.op, refuse)
    THEN [r |-> r, tk |-> [tk EXCEPT !.pc = "type", !.conflict = TRUE]]
    ELSE CASE tk.op \in {"get", "hGet"} -> [r |-> r, tk |-> Returns(tk, ReadResult(e, tk))]
           [] tk.op \in {"set", "hSet"} ->
                [r |-> [r EXCEPT ![tk.key] = Written(e, tk)], tk |-> Returns(tk, Null)]
           [] OTHER -> [r |-> [r EXCEPT ![tk.key] = NoKey], tk |-> Returns(tk, Null)]

\* handleWrongTypeError, `await this.client.type(fullKey)`
TypeStep(r, tk, fail) ==
  IF fail THEN [r |-> r, tk |-> AfterHandlerError(tk)]
  ELSE IF r[tk.key].type = "none" THEN [r |-> r, tk |-> Returns(tk, Null)]
  ELSE [r |-> r, tk |-> [tk EXCEPT !.pc = "del"]]

\* handleWrongTypeError, `await this.client.del(fullKey)`; the reads return null here
DelStep(r, tk, fail) ==
  IF fail THEN [r |-> r, tk |-> AfterHandlerError(tk)]
  ELSE [r |-> [r EXCEPT ![tk.key] = NoKey],
        tk |-> IF tk.op \in {"get", "hGet"} \/ tk.value = Undefined
               THEN Returns(tk, Null)
               ELSE [tk EXCEPT !.pc = "retry"]]

\* handleWrongTypeError, the write again
RetryStep(r, tk, fail, refuse) ==
  IF fail \/ WrongType(r[tk.key], tk.op, refuse)
  THEN [r |-> r, tk |-> AfterHandlerError(tk)]
  ELSE [r |-> [r EXCEPT ![tk.key] = Written(r[tk.key], tk)],
        tk |-> [Returns(tk, Null) EXCEPT !.repaired = TRUE]]

\* One whole operation with no other task in between: the steps one after the other.
RECURSIVE Run(_, _)
Run(r, tk) ==
  CASE tk.pc = "idle" -> LET o == CallStep(r, tk, FALSE, FALSE) IN Run(o.r, o.tk)
    [] tk.pc = "type" -> LET o == TypeStep(r, tk, FALSE) IN Run(o.r, o.tk)
    [] tk.pc = "del" -> LET o == DelStep(r, tk, FALSE) IN Run(o.r, o.tk)
    [] tk.pc = "retry" -> LET o == RetryStep(r, tk, FALSE, FALSE) IN Run(o.r, o.tk)
    [] OTHER -> [r |-> r, tk |-> tk]

\* What a read of the shape of the write w returns from the store r.
NoWrite == [key |-> <<>>, field |-> NoField, value |-> Null, shape |-> "none"]
WriteOf(tk) == [key |-> tk.key, field |-> tk.field, value |-> tk.value, shape |-> Shape(tk.op)]
ReadBack(r, w) ==
  IF w.shape = "string"
  THEN ReadResult(r[w.key], [op |-> "get", field |-> NoField])
  ELSE ReadResult(r[w.key], [op |-> "hGet", field |-> w.field])

\* The write remembered in kwritten after a step of the operation tk that took the
\* store from r to r2: a repaired write is remembered; it is forgotten when a command
\* of a caller (a write, a delete) replaces its key, and when a repair deletes its key
\* because the key has the wrong shape for the repaired operation.
NextWritten(w, r, tk, r2, tk2) ==
  IF tk2.repaired /\ ~tk.repaired THEN WriteOf(tk)
  ELSE IF w.key # tk.key \/ r2[tk.key] = r[tk.key] THEN w
  ELSE IF tk.pc = "del" /\ r[tk.key].type = Shape(tk.op) THEN w
  ELSE NoWrite

Tasks == 1..NumTasks
TaskValues == <<"v1", "v2", "v3">>
OldValue == Text("v0")
StoreKeys == {NameKey(1), AuthKey(1)}


\* What the last step did: the operation, where it was and where it went.
Done(tk) == tk.pc \in {"ret", "raised"}
StepOf(t, tk, tk2) ==
  [t |-> t, by |-> tk.by, n |-> tk.n, op |-> tk.op, key |-> tk.key, pc |-> tk.pc,
   to |-> tk2.pc, res |-> tk2.res, conflict |-> tk2.conflict, repaired |-> tk2.repaired]
NoStep == StepOf(None, IdleTask, IdleTask)

\* restoreAllSessions has not been called.
NoLog == [ev |-> "none", key |-> <<>>, n |-> None, hash |-> FALSE]
NoVerification ==
  [n |-> None, outcome |-> "none", marker |-> FALSE, st |-> "none", functional |-> FALSE,
   reconnects |-> 0, scheduled |-> 0]
\* No eviction timer armed, no shutdown requested, no send validated.
NoEvict ==
  [n |-> None, pc |-> "off", reachable |-> TRUE, probed |-> FALSE, recovery |-> "none",
   loggedOut |-> FALSE, removed |-> FALSE, ev |-> "none", young |-> FALSE, expiries |-> 0]
Running == 0 - 1       \* process.exit has not been called
NoShutdown ==
  [pc |-> "off", isShuttingDown |-> FALSE, health |-> "running", t |-> 0, deadline |-> NoTime,
   cleanupDue |-> NoTime, closeDue |-> NoTime, saving |-> {}, status |-> [n \in Names |-> "close"],
   k |-> 0, attempts |-> 0, drains |-> 0, ignored |-> 0, log |-> <<>>, failed |-> FALSE,
   exit |-> Running, hang |-> {}, closing |-> {}, raised |-> {}, terminated |-> {}]
NoSend ==
  [n |-> None, registered |-> FALSE, state |-> "none", client |-> FALSE, hasId |-> FALSE,
   invoked |-> FALSE, error |-> [text |-> "none", name |-> "", state |-> ""]]
InitNoOps ==
  /\ evict = NoEvict
  /\ shut = NoShutdown
  /\ send = NoSend

InitNoStartup ==
  /\ InitNoOps
  /\ spc = "idle"
  /\ squeue = <<>>
  /\ scount = 0
  /\ slog = NoLog
  /\ vqueue = <<>>
  /\ vtimer = [n \in Names |-> 0]
  /\ vdel = [n \in Names |-> {}]
  /\ vlog = NoVerification

\* No operation of the key store in progress.
InitTasks ==
  /\ task = [t \in Tasks |-> IdleTask]
  /\ kstep = NoStep
  /\ kwritten = NoWrite

\* The key store is not used.
InitLater ==
  /\ InitTasks
  /\ InitNoStartup
  /\ conf = [redis |-> FALSE, db |-> TRUE]
  /\ redis = [k \in {} |-> NoKey]

\* CacheService, the wrapper the callers hold: it hands the call to the engine
\* (RedisCache) and the engine's result or exception back to the caller.
CacheService(tk) == tk

\* Where the caller of the finished operation tk goes on.
\* persistInstanceState: after `await this.cache.set(cacheKey, instanceData, 0)` the
\* update of the durable record, if that tier is enabled and the record has an id; a
\* raised cache.set ends in the catch of persistInstanceState.
\* checkCacheAvailability: set, get, delete; a raised set ends in its catch.
Continue(tk0) ==
  LET tk == CacheService(tk0) IN
    CASE tk.by = "persist" /\ tk.pc = "ret" /\ conf.db /\ tk.value.instanceId # <<>> ->
         [tk EXCEPT !.pc = "dbUpdate"]
    [] tk.by = "probe" /\ tk.pc = "ret" /\ tk.op = "set" -> [tk EXCEPT !.pc = "probeGet"]
    [] tk.by = "probe" /\ tk.pc = "ret" /\ tk.op = "get" -> [tk EXCEPT !.pc = "probeDelete"]
    [] OTHER -> IdleTask

\* One step of the operation tk of task t with the outcome o. The caller goes on as
\* soon as its operation has returned or raised, so the task is idle again.
StoreStep(t, tk, o) ==
  /\ redis' = o.r
  /\ task' = [task EXCEPT ![t] = IF Done(o.tk) THEN Continue(o.tk) ELSE o.tk]
  /\ kwritten' = NextWritten(kwritten, redis, tk, o.r, o.tk)
  /\ kstep' = StepOf(t, tk, o.tk)

\* RedisCache.get(key)
Get(t, k, fail) ==
  /\ task[t].pc = "idle"
  /\ LET tk == NewOp("get", k, NoField, Null, 0) IN
       StoreStep(t, tk, CallStep(redis, tk, fail, FALSE))
  /\ UNCHANGED <<conf, baseVars, startVars, opsVars>>

\* RedisCache.hGet(key, field)
HGet(t, k, f, fail) ==
  /\ task[t].pc = "idle"
  /\ LET tk == NewOp("hGet", k, f, Null, 0) IN
       StoreStep(t, tk, CallStep(redis, tk, fail, FALSE))
  /\ UNCHANGED <<conf, baseVars, startVars, opsVars>>

\* RedisCache.set(key, value, ttl)
Set(t, k, v, ttl, fail, refuse) ==
  /\ task[t].pc = "idle"
  /\ LET tk == NewOp("set", k, NoField, v, ttl) IN
       StoreStep(t, tk, CallStep(redis, tk, fail, refuse))
  /\ UNCHANGED <<conf, baseVars, startVars, opsVars>>

\* RedisCache.hSet(key, field, value)
HSet(t, k, f, v, fail) ==
  /\ task[t].pc = "idle"
  /\ LET tk == NewOp("hSet", k, f, v, 0) IN
       StoreStep(t, tk, CallStep(redis, tk, fail, FALSE))
  /\ UNCHANGED <<conf, baseVars, startVars, opsVars>>

\* RedisCache.delete(key)
Delete(t, k, fail) ==
  /\ task[t].pc = "idle"
  /\ LET tk == NewOp("delete", k, NoField, Null, 0) IN
       StoreStep(t, tk, CallStep(redis, tk, fail, FALSE))
  /\ UNCHANGED <<conf, baseVars, startVars, opsVars>>

\* handleWrongTypeError: the answer of TYPE
HandleWrongTypeError(t, fail) ==
  /\ task[t].pc = "type"
  /\ StoreStep(t, task[t], TypeStep(redis, task[t], fail))
  /\ UNCHANGED <<conf, baseVars, startVars, opsVars>>

\* handleWrongTypeError: the answer of DEL
HandleWrongTypeDel(t, fail) ==
  /\ task[t].pc = "del"
  /\ StoreStep(t, task[t], DelStep(redis, task[t], fail))
  /\ UNCHANGED <<conf, baseVars, startVars, opsVars>>

\* handleWrongTypeError: the answer of the repeated write
HandleWrongTypeRetry(t, fail, refuse) ==
  /\ task[t].pc = "retry"
  /\ StoreStep(t, task[t], RetryStep(redis, task[t], fail, refuse))
  /\ UNCHANGED <<conf, baseVars, startVars, opsVars>>

\* A key that was stored with an expiry expires.
Expire(k) ==
  /\ redis[k].ttl > 0
  /\ redis' = [redis EXCEPT ![k] = NoKey]
  /\ kwritten' = IF kwritten.key = k THEN NoWrite ELSE kwritten
  /\ kstep' = NoStep
  /\ UNCHANGED <<task, conf, baseVars, startVars, opsVars>>

\* Nothing but the key store runs: the registry is empty and the monitor idle.
InitBase ==
  /\ InitPasses
  /\ InitSweeps
  /\ inst = [n \in Names |-> NewInstance(Baileys, "close", FALSE)]
  /\ waInstances = [n \in Names |-> None]
  /\ liveObjs = [n \in Names |-> {}]
  /\ dbStatus = [n \in Names |-> "close"]

\* What an earlier run, or an earlier layout of the keys, left under a key.
OldEntries ==
  {NoKey, StringEntry(Stringify(OldValue), 0)}
    \cup {HashEntry([EmptyHash EXCEPT ![f] = Stringify(OldValue)], 0) : f \in Fields}

\* The callers work on one key, any of StoreKeys.
InitStore ==
  /\ InitBase
  /\ InitTasks
  /\ InitNoStartup
  /\ conf = [redis |-> TRUE, db |-> TRUE]
  /\ \E k \in StoreKeys : redis \in [{k} -> OldEntries]

\* Callers of the key store working on the same key, each suspended in the commands
\* of its operation; a command of a repair may fail.
NextStore ==
  \/ \E t \in Tasks, k \in DOMAIN redis : Get(t, k, FALSE)
  \/ \E t \in Tasks, k \in DOMAIN redis, f \in Fields : HGet(t, k, f, FALSE)
  \/ \E t \in Tasks, k \in DOMAIN redis, refuse \in BOOLEAN :
       Set(t, k, Text(TaskValues[t]), 0, FALSE, refuse)
  \/ \E t \in Tasks, k \in DOMAIN redis, f \in Fields :
       HSet(t, k, f, Text(TaskValues[t]), FALSE)
  \/ \E t \in Tasks, fail \in BOOLEAN : HandleWrongTypeError(t, fail)
  \/ \E t \in Tasks, fail \in BOOLEAN : HandleWrongTypeDel(t, fail)
  \/ \E t \in Tasks, fail \in BOOLEAN, refuse \in BOOLEAN : HandleWrongTypeRetry(t, fail, refuse)

SpecStore == InitStore /\ [][NextStore]_vars

\* ------------------------------------------------------ the persistence gateway
NoStatus == ""    \* instanceData without connectionStatus
baseVarsButDb == <<waInstances, liveObjs, nextObj, restoredMarker, rpc, rqueue, robj, rcount,
                   inst, now, cronFiredAt, hpc, hqueue, hsnapshot, hchecked, hstart, hobs, hthrown,
                   running>>

\* persistInstanceState(instanceName, instanceData) up to the answer of the first
\* command of cache.set, or, without the cache tier, up to the call of the update.
PersistInstanceState(t, n, withId, st, fail, refuse) ==
  /\ task[t].pc = "idle"
  /\ conf.redis \/ (conf.db /\ withId)
  /\ LET data == InstanceData(n, withId, st)
         cacheKey == IF withId THEN IdKey(n) ELSE NameKey(n)
         tk == [NewOp("set", cacheKey, NoField, data, 0) EXCEPT !.by = "persist", !.n = n]
     IN IF conf.redis
        THEN StoreStep(t, tk, CallStep(redis, tk, fail, refuse))
        ELSE /\ task' = [task EXCEPT ![t] = [tk EXCEPT !.op = "none", !.pc = "dbUpdate"]]
             /\ kstep' = StepOf(t, [tk EXCEPT !.op = "none"], [tk EXCEPT !.pc = "dbUpdate"])
             /\ UNCHANGED <<redis, kwritten>>
  /\ UNCHANGED <<conf, baseVars, startVars, opsVars>>

\* persistInstanceState after `await this.prismaRepository.instance.update(...)`:
\* connectionStatus: instanceData.connectionStatus || 'open'; a failed update is logged.
PrismaUpdate(t, ok) ==
  /\ task[t].pc = "dbUpdate"
  /\ dbStatus' = IF ok
                 THEN [dbStatus EXCEPT ![task[t].n] =
                         IF task[t].value.connectionStatus = NoStatus
                         THEN "open" ELSE task[t].value.connectionStatus]
                 ELSE dbStatus
  /\ task' = [task EXCEPT ![t] = IdleTask]
  /\ kstep' = StepOf(t, task[t], Returns(task[t], Null))
  /\ UNCHANGED <<redis, kwritten, conf, baseVarsButDb, startVars, opsVars>>

\* restoreInstance: `await this.cache.set(`restored:${name}`, 'true', 300)`
SetRestoredMarker(t, n, fail, refuse) ==
  /\ task[t].pc = "idle"
  /\ LET tk == [NewOp("set", RestoredKey(n), NoField, Text("true"), MARKER_TTL)
                  EXCEPT !.by = "marker", !.n = n] IN
       StoreStep(t, tk, CallStep(redis, tk, fail, refuse))
  /\ UNCHANGED <<conf, baseVars, startVars, opsVars>>

\* ConnectionHealthService.setConnectingTime:
\* `await this.cache.set(`connecting_time:${name}`, Date.now().toString(), 300)`
SetConnectingTimeMarker(t, n, fail, refuse) ==
  /\ task[t].pc = "idle"
  /\ LET tk == [NewOp("set", ConnectingTimeKey(n), NoField, Text("now"), CONNECTING_TIME_TTL)
                  EXCEPT !.by = "marker", !.n = n] IN
       StoreStep(t, tk, CallStep(redis, tk, fail, refuse))
  /\ UNCHANGED <<conf, baseVars, startVars, opsVars>>

\* checkCacheAvailability: `await this.cache.set(testKey, 'test', 5)`
CheckCacheAvailability(t, n, fail, refuse) ==
  /\ task[t].pc = "idle"
  /\ LET tk == [NewOp("set", TestKey(n), NoField, Text("test"), PROBE_TTL)
                  EXCEPT !.by = "probe", !.n = n] IN
       StoreStep(t, tk, CallStep(redis, tk, fail, refuse))
  /\ UNCHANGED <<conf, baseVars, startVars, opsVars>>

\* checkCacheAvailability: `await this.cache.get(testKey)`
ProbeGet(t, fail) ==
  /\ task[t].pc = "probeGet"
  /\ LET tk == [NewOp("get", task[t].key, NoField, Null, 0)
                  EXCEPT !.by = "probe", !.n = task[t].n] IN
       StoreStep(t, tk, CallStep(redis, tk, fail, FALSE))
  /\ UNCHANGED <<conf, baseVars, startVars, opsVars>>

\* checkCacheAvailability: `await this.cache.delete(testKey)`
ProbeDelete(t, fail) ==
  /\ task[t].pc = "probeDelete"
  /\ LET tk == [NewOp("delete", task[t].key, NoField, Null, 0)
                  EXCEPT !.by = "probe", !.n = task[t].n] IN
       StoreStep(t, tk, CallStep(redis, tk, fail, FALSE))
  /\ UNCHANGED <<conf, baseVars, startVars, opsVars>>

PrimaryKeys == {NameKey(n) : n \in Names} \cup {IdKey(n) : n \in Names}
MarkerKeys ==
  {RestoredKey(n) : n \in Names} \cup {ConnectingTimeKey(n) : n \in Names}
    \cup {TestKey(n) : n \in Names}
Statuses == {"close", NoStatus}

\* The tiers that are enabled; under the instances' own keys nothing, or a hash that
\* the earlier layout of the credentials left there; no marker yet.
InitPersist ==
  /\ InitBase
  /\ InitTasks
  /\ InitNoStartup
  /\ conf \in [redis : BOOLEAN, db : BOOLEAN]
  /\ \E legacy \in SUBSET {IdKey(1), NameKey(1)} :
       redis = [k \in {IdKey(1), NameKey(1), RestoredKey(1), ConnectingTimeKey(1), TestKey(1)} |->
                  IF k \in legacy
                  THEN HashEntry([EmptyHash EXCEPT !["creds"] = Stringify(OldValue)], 0)
                  ELSE NoKey]

\* The writers of the instance cache one after the other: persist, the markers and the
\* probe, on a cache and a database that may fail.
NextPersist ==
  \/ \E withId \in BOOLEAN, st \in Statuses, fail \in BOOLEAN, refuse \in BOOLEAN :
       PersistInstanceState(1, 1, withId, st, fail, refuse)
  \/ \E ok \in BOOLEAN : PrismaUpdate(1, ok)
  \/ \E fail \in BOOLEAN : SetRestoredMarker(1, 1, fail, FALSE)
  \/ \E fail \in BOOLEAN : SetConnectingTimeMarker(1, 1, fail, FALSE)
  \/ \E fail \in BOOLEAN : CheckCacheAvailability(1, 1, fail, FALSE)
  \/ \E fail \in BOOLEAN : ProbeGet(1, fail)
  \/ \E fail \in BOOLEAN : ProbeDelete(1, fail)
  \/ \E fail \in BOOLEAN : HandleWrongTypeError(1, fail)
  \/ \E fail \in BOOLEAN : HandleWrongTypeDel(1, fail)
  \/ \E fail \in BOOLEAN, refuse \in BOOLEAN : HandleWrongTypeRetry(1, fail, refuse)
  \/ \E k \in DOMAIN redis : Expire(k)

SpecPersist == InitPersist /\ [][NextPersist]_vars

\* ------------------------------------------------------------ restoration
\* prismaRepository.instance.findMany({connectionStatus: {in: ['open','connecting']}})
EligibleRecords == SeqOfSet({n \in Names : dbStatus[n] \in {"open", "connecting"}})

\* Process start: the registry is empty, the durable records are what an earlier run left.
InitRestore ==
  /\ InitPasses
  /\ InitSweeps
  /\ InitLater
  /\ inst = [n \in Names |-> NewInstance(Baileys, "close", FALSE)]
  /\ waInstances = [n \in Names |-> None]
  /\ liveObjs = [n \in Names |-> {}]
  /\ nextObj = 1
  /\ dbStatus \in [Names -> {"open", "connecting", "close"}]

\* restoreFromDatabase up to the end of its findMany: a pass is started by
\* restoreAllSessions (startup or manual) or by an eviction timer's recovery.
RestoreFromDatabase(p) ==
  /\ rpc[p] = "idle"
  /\ rqueue' = [rqueue EXCEPT ![p] = EligibleRecords]
  /\ rcount' = [rcount EXCEPT ![p] = 0]
  /\ rpc' = [rpc EXCEPT ![p] = IF EligibleRecords = <<>> THEN "done" ELSE "loop"]
  /\ UNCHANGED <<waInstances, liveObjs, nextObj, dbStatus, restoredMarker, robj>>
  /\ UNCHANGED <<healthVars, laterVars>>

\* (a restoreInstance without its registry test)
AlreadyLoadedNever(n) == FALSE

\* The registry test of restoreInstance.
AlreadyLoaded(n) == waInstances[n] # None

\* restoreInstance for the head record, up to the await inside setInstance:
\* the registry test, channelController.init and the call of connectToWhatsapp.
RestoreInstance(p) ==
  /\ rpc[p] = "loop"
  /\ rqueue[p] # <<>>
  /\ LET n == Head(rqueue[p]) IN
       IF AlreadyLoaded(n)
       THEN \* "already loaded, skipping": returns normally, the caller counts it
            /\ rcount' = [rcount EXCEPT ![p] = @ + 1]
            /\ rqueue' = [rqueue EXCEPT ![p] = Tail(@)]
            /\ rpc' = [rpc EXCEPT ![p] = IF Tail(rqueue[p]) = <<>> THEN "done" ELSE "loop"]
            /\ UNCHANGED <<waInstances, liveObjs, nextObj, dbStatus, restoredMarker, robj>>
       ELSE /\ nextObj <= MaxObjects
            /\ liveObjs' = [liveObjs EXCEPT ![n] = @ \cup {nextObj}]
            /\ robj' = [robj EXCEPT ![p] = nextObj]
            /\ nextObj' = nextObj + 1
            /\ rpc' = [rpc EXCEPT ![p] = "connectToWhatsapp"]
            /\ UNCHANGED <<waInstances, dbStatus, restoredMarker, rqueue, rcount>>
  /\ UNCHANGED <<healthVars, laterVars>>

\* setInstance after `await instance.connectToWhatsapp()` returned: the registry write;
\* restoreInstance then awaits the write of the restored:<name> marker.
SetInstance(p) ==
  /\ rpc[p] = "connectToWhatsapp"
  /\ waInstances' = [waInstances EXCEPT ![Head(rqueue[p])] = robj[p]]
  /\ robj' = [robj EXCEPT ![p] = None]
  /\ rpc' = [rpc EXCEPT ![p] = "markRestored"]
  /\ UNCHANGED <<liveObjs, nextObj, dbStatus, restoredMarker, rqueue, rcount>>
  /\ UNCHANGED <<healthVars, laterVars>>

\* restoreInstance after `await this.cache.set('restored:<name>', 'true', 300)`, and the
\* caller's restored++.
MarkRestored(p) ==
  /\ rpc[p] = "markRestored"
  /\ restoredMarker' = [restoredMarker EXCEPT ![Head(rqueue[p])] = TRUE]
  /\ rcount' = [rcount EXCEPT ![p] = @ + 1]
  /\ rqueue' = [rqueue EXCEPT ![p] = Tail(@)]
  /\ rpc' = [rpc EXCEPT ![p] = IF Tail(rqueue[p]) = <<>> THEN "done" ELSE "loop"]
  /\ UNCHANGED <<waInstances, liveObjs, nextObj, dbStatus, robj>>
  /\ UNCHANGED <<healthVars, laterVars>>

\* connectToWhatsapp rejected: setInstance and restoreInstance rethrow, the loop of
\* restoreFromDatabase logs it and goes on; nothing is registered or counted and the
\* Instance that failed to connect is dropped.
SetInstanceThrows(p) ==
  /\ rpc[p] = "connectToWhatsapp"
  /\ liveObjs' = [liveObjs EXCEPT ![Head(rqueue[p])] = @ \ {robj[p]}]
  /\ robj' = [robj EXCEPT ![p] = None]
  /\ rqueue' = [rqueue EXCEPT ![p] = Tail(@)]
  /\ rpc' = [rpc EXCEPT ![p] = IF Tail(rqueue[p]) = <<>> THEN "done" ELSE "loop"]
  /\ UNCHANGED <<waInstances, nextObj, dbStatus, restoredMarker, rcount>>
  /\ UNCHANGED <<healthVars, laterVars>>

\* A finished pass may be invoked again (manual re-invocation, another timer).
PassReturns(p) ==
  /\ rpc[p] = "done"
  /\ rpc' = [rpc EXCEPT ![p] = "idle"]
  /\ UNCHANGED <<waInstances, liveObjs, nextObj, dbStatus, restoredMarker, rqueue, robj, rcount>>
  /\ UNCHANGED <<healthVars, laterVars>>

NextRestore ==
  \E p \in Passes :
    \/ RestoreFromDatabase(p)
    \/ RestoreInstance(p)
    \/ SetInstance(p)
    \/ MarkRestored(p)
    \/ SetInstanceThrows(p)
    \/ PassReturns(p)

SpecRestore == InitRestore /\ [][NextRestore]_vars

\* ----------------------------------------------------------- health monitor
Registered == {n \in Names : waInstances[n] # None}

Awaits == {"getConnectingTime", "clearConnectingTime", "connectToWhatsapp", "dbUpdate", "sendWebhook"}

\* handleConnectionMismatch up to `await instance.connectToWhatsapp()`.
HandleConnectionMismatch(i, tobs, t) ==
  ConnectToWhatsapp(WriteState(i, "close", "health", tobs, t), "health", t)

\* handleConnectionFailure up to `await instance.connectToWhatsapp()`.
HandleConnectionFailure(i, tobs, t) ==
  ConnectToWhatsapp(WriteState(WsClose(i), "close", "health", tobs, t), "health", t)

\* correctFalseDisconnection up to its first await of real I/O.
CorrectFalseDisconnection(i, tobs, t) ==
  IF PerformPingTest(i)
  THEN [i |-> WriteState(i, "open", "health", tobs, t), pc |-> "dbUpdate"]
  ELSE [i |-> HandleConnectionFailure(i, tobs, t), pc |-> "connectToWhatsapp"]

\* A sweep has reached an instance declared 'close' whose transport is ready,
\* authenticated and passes the probe.
MarkFalseDisconnect(i) ==
  IF i.state = "close" /\ IsWebSocketHealthy(i) /\ PerformPingTest(i)
  THEN [i EXCEPT !.g_falseDisc = TRUE, !.g_corrections = 0] ELSE i

\* The open branch has called performPingTest.
Probed(i) == [i EXCEPT !.g_tags = @ \cup {"probed"}]

\* checkInstanceHealth up to its first await of real I/O, or to its end ("done").
\* The state it branches on is the one the connectionStatus getter returned.
CheckInstanceHealthSync(i0, t) ==
  IF i0.integration # Baileys THEN [i |-> i0, pc |-> "done"]
  ELSE
    LET i == ConnectionStatus(MarkFalseDisconnect(i0), t) IN
    CASE i.state = "open" ->
           IF ~IsWebSocketHealthy(i)
           THEN [i |-> HandleConnectionMismatch(i, t, t), pc |-> "connectToWhatsapp"]
           ELSE IF ~PerformPingTest(i)
                THEN [i |-> HandleConnectionFailure(Probed(i), t, t), pc |-> "connectToWhatsapp"]
                ELSE [i |-> Probed(i), pc |-> "done"]
      [] i.state = "close" ->
           IF IsWebSocketHealthy(i) /\ i.user
           THEN CorrectFalseDisconnection(i, t, t)
           ELSE [i |-> i, pc |-> "done"]
      [] OTHER -> [i |-> i, pc |-> "getConnectingTime"]

\* checkInstanceHealth and the handler it is in, from the return of the await `pc`
\* (ok: it resolved; ~ok: it rejected) to the next await or the end.  tobs is when
\* the sweep read the instance's connectionStatus, start the sweep's cron instant.
AfterAwait(pc, i, ok, tobs, start, t) ==
  CASE pc = "getConnectingTime" ->
         \* a failed cache read is caught inside getConnectingTime and gives null
         LET connectingTime == IF ok THEN GetConnectingTime(i, t) ELSE NoTime IN
         IF ConnectionTimedOut(connectingTime, t)
         THEN [i |-> WsClose(i), pc |-> "clearConnectingTime", db |-> FALSE]
         ELSE [i |-> i, pc |-> "done", db |-> FALSE]
    [] pc = "clearConnectingTime" ->
         \* handleConnectionTimeout after `await this.clearConnectingTime(...)`
         LET i1 == IF ok THEN ClearConnectingTime(i) ELSE i
             i2 == ConnectToWhatsapp(WriteState(i1, "close", "health", tobs, t), "health", t)
         IN [i |-> IF i.g_scen
                   THEN [i2 EXCEPT !.g_restarts = Min(@ + 1, MaxCount), !.g_restartBy = start]
                   ELSE i2,
             pc |-> "connectToWhatsapp", db |-> FALSE]
    [] pc = "connectToWhatsapp" -> [i |-> i, pc |-> "done", db |-> FALSE]
    [] pc = "dbUpdate" -> [i |-> i, pc |-> "sendWebhook", db |-> ok]
    [] OTHER ->
         [i |-> IF ok THEN [i EXCEPT !.g_corrections = Min(@ + 1, MaxCount)] ELSE i,
          pc |-> "done", db |-> FALSE]

\* A sweep that gives up at the first exception (not what the code does).
SweepAborts(q) == <<>>

\* The names still to check after the check of the head raised: every exception is
\* caught inside checkInstanceHealth or its handler, the loop goes on.
QueueAfterThrow(q) == Tail(q)

\* The check of the instance is over.
Finish(i, pc) ==
  IF pc = "done" /\ i.g_falseDisc
  THEN [i EXCEPT !.g_falseDisc = FALSE, !.g_tags = @ \cup {"fdChecked"}] ELSE i

\* The sweep s goes on from the check of n: to the await pc, or to the next name.
Proceed(s, n, pc, threw) ==
  /\ hthrown' = [hthrown EXCEPT ![s] = IF threw THEN @ \cup {n} ELSE @]
  /\ IF pc = "done"
     THEN /\ hpc' = [hpc EXCEPT ![s] = "loop"]
          /\ hqueue' = [hqueue EXCEPT ![s] = IF threw \/ n \in hthrown[s]
                                             THEN QueueAfterThrow(@) ELSE Tail(@)]
          /\ hchecked' = [hchecked EXCEPT ![s] = @ \cup {n}]
          /\ running' = s
     ELSE /\ hpc' = [hpc EXCEPT ![s] = pc]
          /\ running' = None
          /\ UNCHANGED <<hqueue, hchecked>>

\* The cron callback performHealthChecks starts: it snapshots the registry keys.
CronFires(s) ==
  /\ running = None
  /\ shut.exit = Running
  /\ shut.health = "running"
  /\ now % HEALTH_CHECK_INTERVAL = 0
  /\ cronFiredAt < now
  /\ hpc[s] = "idle"
  /\ \A s2 \in Sweeps : hpc[s2] = "idle" => s <= s2
  /\ cronFiredAt' = now
  /\ hstart' = [hstart EXCEPT ![s] = now]
  /\ hsnapshot' = [hsnapshot EXCEPT ![s] = Registered]
  /\ hqueue' = [hqueue EXCEPT ![s] = SeqOfSet(Registered)]
  /\ hchecked' = [hchecked EXCEPT ![s] = {}]
  /\ hthrown' = [hthrown EXCEPT ![s] = {}]
  /\ hpc' = [hpc EXCEPT ![s] = "loop"]
  /\ running' = s
  /\ UNCHANGED <<laterVars, restoreVars, dbStatus, inst, now, hobs>>

\* One iteration of the loop of performHealthChecks up to the first await of real I/O.
CheckInstanceHealth(s) ==
  /\ running = s
  /\ shut.exit = Running
  /\ hpc[s] = "loop"
  /\ hqueue[s] # <<>>
  /\ LET n == Head(hqueue[s])
         r == CheckInstanceHealthSync(Begin(inst[n]), now)
     IN /\ inst' = [inst EXCEPT ![n] = Finish(r.i, r.pc)]
        /\ Proceed(s, n, r.pc, FALSE)
  /\ hobs' = [hobs EXCEPT ![s] = now]
  /\ UNCHANGED <<laterVars, restoreVars, dbStatus, now, cronFiredAt, hsnapshot, hstart>>

\* An await of the sweep s settles and the sweep runs on to its next await.
AwaitReturns(s, ok) ==
  /\ running = None
  /\ shut.exit = Running
  /\ hpc[s] \in Awaits
  /\ LET n == Head(hqueue[s])
         r == AfterAwait(hpc[s], Begin(inst[n]), ok, hobs[s], hstart[s], now)
     IN /\ inst' = [inst EXCEPT ![n] = Finish(r.i, r.pc)]
        /\ dbStatus' = IF r.db THEN [dbStatus EXCEPT ![n] = "open"] ELSE dbStatus
        /\ Proceed(s, n, r.pc, ~ok)
  /\ UNCHANGED <<laterVars, restoreVars, now, cronFiredAt, hsnapshot, hstart, hobs>>

\* The loop of performHealthChecks has gone through its snapshot.
SweepEnds(s) ==
  /\ running = s
  /\ shut.exit = Running
  /\ hpc[s] = "loop"
  /\ hqueue[s] = <<>>
  /\ hpc' = [hpc EXCEPT ![s] = "idle"]
  /\ running' = None
  /\ UNCHANGED <<laterVars, restoreVars, dbStatus, inst, now, cronFiredAt, hqueue, hsnapshot, hchecked,
                 hstart, hobs, hthrown>>

\* -------------------------------------------------- transport, reads, clock
\* The socket of the instance goes not-ready; the transport will report 'close'.
TransportCloses(n) ==
  /\ running = None
  /\ n \in Registered
  /\ inst[n].wsOpen
  /\ inst' = [inst EXCEPT ![n] = [Begin(@) EXCEPT !.wsOpen = FALSE, !.pending = @ \cup {"close"},
                                                   !.g_outage = (inst[n].state = "open"),
                                                   !.g_down = FALSE, !.g_recon = FALSE,
                                                   !.g_scen = FALSE]]
  /\ UNCHANGED <<laterVars, restoreVars, dbStatus, now, cronFiredAt, sweepVars>>

\* The connect attempt in flight succeeds; the transport will report 'open'.
TransportOpens(n) ==
  /\ running = None
  /\ n \in Registered
  /\ inst[n].attempt
  /\ ~inst[n].wsOpen
  /\ inst' = [inst EXCEPT ![n] = [Begin(@) EXCEPT !.wsOpen = TRUE, !.attempt = FALSE,
                                                   !.pending = @ \cup {"open"},
                                                   !.g_outage = FALSE, !.g_down = FALSE,
                                                   !.g_recon = FALSE, !.g_scen = FALSE]]
  /\ UNCHANGED <<laterVars, restoreVars, dbStatus, now, cronFiredAt, sweepVars>>

\* connectionUpdate(c) for a reported event, up to its await of the database update
\* ('open') or to its end ('close').
ConnectionUpdate(n, c) ==
  /\ running = None
  /\ n \in Registered
  /\ c \in inst[n].pending
  /\ inst[n].upc = "none"
  /\ LET i1 == WriteState(Begin(inst[n]), c, "connectionUpdate", now, now)
         i2 == [i1 EXCEPT !.pending = @ \ {c}, !.g_scen = FALSE]
     IN inst' = [inst EXCEPT ![n] = IF c = "open"
                                    THEN [i2 EXCEPT !.client = TRUE, !.user = TRUE, !.upc = "dbUpdate"]
                                    ELSE i2]
  /\ UNCHANGED <<laterVars, restoreVars, dbStatus, now, cronFiredAt, sweepVars>>

\* connectionUpdate('open') after `await prismaRepository.instance.update(...)`: the
\* verification, then instance.connected whose listener clears the connect start.
ConnectionUpdateOpened(n) ==
  /\ running = None
  /\ n \in Registered
  /\ inst[n].upc = "dbUpdate"
  /\ dbStatus' = [dbStatus EXCEPT ![n] = "open"]
  /\ inst' = [inst EXCEPT ![n] =
                 [ClearConnectingTime(VerifyConnectionStatusConsistency(Begin(@), now))
                    EXCEPT !.upc = "none"]]
  /\ UNCHANGED <<laterVars, restoreVars, now, cronFiredAt, sweepVars>>

\* The no.connection listener up to `await client?.logout(...)`; the logout ends the
\* authenticated session at the transport.
NoConnection(n) ==
  /\ running = None
  /\ n \in Registered
  /\ inst[n].npc = "none"
  /\ inst' = [inst EXCEPT ![n] = [Begin(@) EXCEPT !.npc = "logout", !.user = FALSE,
                                                   !.g_scen = FALSE]]
  /\ UNCHANGED <<laterVars, restoreVars, dbStatus, now, cronFiredAt, sweepVars>>

\* The no.connection listener after the logout: resolved, it closes the socket and
\* assigns 'close'; rejected, the catch block only logs.
NoConnectionLoggedOut(n, ok) ==
  /\ running = None
  /\ n \in Registered
  /\ inst[n].npc = "logout"
  /\ inst' = [inst EXCEPT ![n] =
                 [(IF ok THEN WriteState(WsClose(Begin(@)), "close", "noConnection", now, now)
                         ELSE Begin(@))
                    EXCEPT !.npc = "none"]]
  /\ UNCHANGED <<laterVars, restoreVars, dbStatus, now, cronFiredAt, sweepVars>>

\* A read of instance.connectionStatus (status endpoint, any caller).
ReadConnectionStatus(n) ==
  /\ running = None
  /\ n \in Registered
  /\ LET i == ConnectionStatus(Begin(inst[n]), now)
     IN inst' = [inst EXCEPT ![n] =
                   [i EXCEPT !.g_tags = @ \cup (IF i.state = inst[n].state
                                                THEN {"read"} ELSE {"read", "corrected"})]]
  /\ UNCHANGED <<laterVars, restoreVars, dbStatus, now, cronFiredAt, sweepVars>>

\* validateInstanceReady passes and the send completes.
SendMessage(n) ==
  /\ running = None
  /\ n \in Registered
  /\ LET i == ConnectionStatus(Begin(inst[n]), now)
     IN /\ i.state = "open"
        /\ i.client
        /\ i.wsOpen
        /\ inst' = [inst EXCEPT ![n] = [i EXCEPT !.lastMessageSentTime = now]]
  /\ UNCHANGED <<laterVars, restoreVars, dbStatus, now, cronFiredAt, sweepVars>>

\* A millisecond passes after a cron instant whose callback has started.
TickMs ==
  /\ running = None
  /\ now % HEALTH_CHECK_INTERVAL = 0
  /\ cronFiredAt = now
  /\ now' = now + 1
  /\ UNCHANGED <<laterVars, restoreVars, dbStatus, inst, cronFiredAt, sweepVars>>

\* Time passes up to the next cron instant, as long as it is not after `last`.
TickToCron(last) ==
  /\ running = None
  /\ now < last
  /\ now % HEALTH_CHECK_INTERVAL = 0 => cronFiredAt = now
  /\ now' = ((now \div HEALTH_CHECK_INTERVAL) + 1) * HEALTH_CHECK_INTERVAL
  /\ UNCHANGED <<laterVars, restoreVars, dbStatus, inst, cronFiredAt, sweepVars>>

\* The states an instance is registered in when monitoring starts.
StartStates ==
  { NewInstance(Baileys, "open", TRUE),
    NewInstance(Baileys, "connecting", FALSE),
    NewInstance(Baileys, "close", FALSE),
    [NewInstance(Baileys, "connecting", TRUE) EXCEPT !.wsOpen = FALSE],
    [NewInstance(Baileys, "connecting", FALSE) EXCEPT
       !.connectingTime = StartTime - CONNECTION_TIMEOUT,
       !.g_ts = StartTime - CONNECTION_TIMEOUT, !.g_scen = FALSE] }

\* One registered instance, the health monitor started.
InitHealth ==
  /\ InitPasses
  /\ InitSweeps
  /\ InitLater
  /\ waInstances = [n \in Names |-> IF n = 1 THEN 1 ELSE None]
  /\ liveObjs = [n \in Names |-> IF n = 1 THEN {1} ELSE {}]
  /\ \E i \in StartStates :
       inst = [n \in Names |-> IF n = 1 THEN i ELSE NewInstance(Baileys, "close", FALSE)]
  /\ dbStatus = [n \in Names |-> inst[n].state]

\* The health sweeps, the transport events, reads and sends of one instance; the
\* clock moves from cron instant to cron instant.
NextHealth ==
  \/ \E s \in Sweeps : CronFires(s)
  \/ \E s \in Sweeps : CheckInstanceHealth(s)
  \/ \E s \in Sweeps, ok \in BOOLEAN : AwaitReturns(s, ok)
  \/ \E s \in Sweeps : SweepEnds(s)
  \/ \E n \in Names : TransportCloses(n)
  \/ \E n \in Names : TransportOpens(n)
  \/ \E n \in Names, c \in {"open", "close"} : ConnectionUpdate(n, c)
  \/ \E n \in Names : ConnectionUpdateOpened(n)
  \/ \E n \in Names : NoConnection(n)
  \/ \E n \in Names, ok \in BOOLEAN : NoConnectionLoggedOut(n, ok)
  \/ \E n \in Names : ReadConnectionStatus(n)
  \/ \E n \in Names : SendMessage(n)
  \/ TickToCron(HealthEndTime)

SpecHealth == InitHealth /\ [][NextHealth]_vars

\* All instances registered, the health monitor started.
InitSweep ==
  /\ InitPasses
  /\ InitSweeps
  /\ InitLater
  /\ waInstances = [n \in Names |-> n]
  /\ liveObjs = [n \in Names |-> {n}]
  /\ inst \in [Names -> StartStates]
  /\ dbStatus = [n \in Names |-> inst[n].state]

\* The health sweeps alone on a transport that may fail and reports nothing back.
NextSweep ==
  \/ \E s \in Sweeps : CronFires(s)
  \/ \E s \in Sweeps : CheckInstanceHealth(s)
  \/ \E s \in Sweeps, ok \in BOOLEAN : AwaitReturns(s, ok)
  \/ \E s \in Sweeps : SweepEnds(s)
  \/ \E n \in Names : TransportCloses(n)
  \/ TickToCron(HealthEndTime)

SpecSweep == InitSweep /\ [][NextSweep]_vars

\* One registered instance whose connect attempt started at StartTime and gets no
\* answer from the transport.
InitTimeout ==
  /\ InitPasses
  /\ InitSweeps
  /\ InitLater
  /\ waInstances = [n \in Names |-> IF n = 1 THEN 1 ELSE None]
  /\ liveObjs = [n \in Names |-> IF n = 1 THEN {1} ELSE {}]
  /\ inst = [n \in Names |-> NewInstance(Baileys, IF n = 1 THEN "connecting" ELSE "close", FALSE)]
  /\ dbStatus = [n \in Names |-> inst[n].state]

\* The health sweeps of a silent connect attempt, the clock in milliseconds around
\* the cron instants.
NextTimeout ==
  \/ \E s \in Sweeps : CronFires(s)
  \/ \E s \in Sweeps : CheckInstanceHealth(s)
  \/ \E s \in Sweeps, ok \in BOOLEAN : AwaitReturns(s, ok)
  \/ \E s \in Sweeps : SweepEnds(s)
  \/ TickMs
  \/ TickToCron(EndTime)

SpecTimeout == InitTimeout /\ [][NextTimeout]_vars

Range(q) == {q[k] : k \in 1..Len(q)}

\* ------------------------------------------------------ restoreAllSessions
StartupPass == 1        \* the pass that restoreAllSessions runs
PreObj == MaxObjects + 1  \* the Instance of a name that was registered before the call

\* String.prototype.split and Array.prototype.join
RECURSIVE Split(_, _)
Split(s, sep) ==
  IF \A k \in 1..Len(s) : s[k] # sep THEN <<s>>
  ELSE LET i == CHOOSE k \in 1..Len(s) : s[k] = sep /\ \A j \in 1..(k - 1) : s[j] # sep
       IN <<SubSeq(s, 1, i - 1)>> \o Split(SubSeq(s, i + 1, Len(s)), sep)
RECURSIVE Join(_, _)
Join(parts, sep) ==
  IF parts = <<>> THEN <<>>
  ELSE IF Len(parts) = 1 THEN parts[1]
  ELSE parts[1] \o <<sep>> \o Join(Tail(parts), sep)

\* restoreFromRedisCache: `keyParts.length >= 3 && keyParts[1] === 'instance'`,
\* instanceKey = keyParts.slice(2).join(':'); <<>> for a key of another module.
InstanceKeyOf(fullKey) ==
  LET keyParts == Split(fullKey, ":") IN
    IF Len(keyParts) >= 3 /\ keyParts[2] = <<"instance">>
    THEN Join(SubSeq(keyParts, 3, Len(keyParts)), ":")
    ELSE <<>>

\* restoreFromRedisCache: the keys that are skipped as 'not actual instance data'
SkipKey(instanceKey) ==
  \/ Includes(instanceKey, <<"connecting_time">>)
  \/ Includes(instanceKey, <<"restored">>)
  \/ Includes(instanceKey, <<"creds">>)
  \/ Includes(instanceKey, <<"-">>)

\* cleanupCorruptedKeys: key.replace(`${PREFIX_KEY}:${module}:`, '')
LogicalKey(fullKey) ==
  IF Len(fullKey) >= 4 /\ SubSeq(fullKey, 1, 4) = BuildKey(<<>>)
  THEN SubSeq(fullKey, 5, Len(fullKey)) ELSE fullKey

\* cleanupCorruptedKeys: the shape a key is expected to have
ShouldBeHash(logicalKey) == Includes(logicalKey, <<":">>) \/ Includes(logicalKey, <<"-">>)

\* cleanupCorruptedKeys: the key is deleted
Corrupted(logicalKey, keyType) ==
  \/ ShouldBeHash(logicalKey) /\ keyType # "hash"
  \/ ~ShouldBeHash(logicalKey) /\ keyType # "string" /\ keyType # "none"

\* `parsedData && (parsedData.instanceName || parsedData.instanceId)`
IsInstanceData(d) == d.kind = "instance" /\ (d.instanceName # "" \/ d.instanceId # <<>>)
NameIndex(name) == CHOOSE n \in Names : InstanceName(n) = name

\* findInstanceInDatabase: the record whose id or name is the key and whose status is
\* open or connecting, None when there is none
FindInstanceInDatabase(key) ==
  LET found == {n \in Names : (IdKey(n) = key \/ NameKey(n) = key)
                              /\ dbStatus[n] \in {"open", "connecting"}}
  IN IF found = {} THEN None ELSE CHOOSE n \in found : TRUE

\* client.scanIterator / cache.keys(''): the keys of the module that exist
\* (the server lists them in an order of its own: the order of ScanOrder here)
ScanOrder ==
  <<NameKey(1), IdKey(1), ConnectingTimeKey(1), RestoredKey(1), AuthKey(1), NameKey(2)>>
Present(r, k) == k \in DOMAIN r /\ r[k].type # "none"
Keys(r) ==
  LET present == SelectSeq(ScanOrder, LAMBDA k : Present(r, k))
  IN [i \in 1..Len(present) |-> BuildKey(present[i])]

\* restoreAllSessions: the stage that follows the remote-cache stage, and the one that
\* follows the durable stage, given restoredCount.
StageAfterDb(restoredCount) == IF restoredCount = 0 THEN "files" ELSE "verify"
StageAfterRedis(restoredCount) == IF conf.db THEN "db" ELSE StageAfterDb(restoredCount)

\* The stage st begins: restoreFromDatabase is called for "db",
\* verifyRestoredConnections takes Object.keys(waInstances) for "verify".
EnterStage(st) ==
  /\ spc' = st
  /\ rpc' = [rpc EXCEPT ![StartupPass] = IF st = "db" THEN "idle" ELSE "wait"]
  /\ vqueue' = IF st = "verify" THEN SeqOfSet(Registered) ELSE <<>>

\* The loop of restoreFromRedisCache goes to its next key, or returns `restored`.
NextRedisKey(restoredCount) ==
  IF Tail(squeue) = <<>>
  THEN squeue' = <<>> /\ EnterStage(StageAfterRedis(restoredCount))
  ELSE /\ squeue' = Tail(squeue)
       /\ spc' = "redisLoop"
       /\ rpc' = [rpc EXCEPT ![StartupPass] = "wait"]
       /\ vqueue' = vqueue

\* restoreInstance(record of n) is called by the loop over the keys.
CallRestoreInstance(n, pc) ==
  /\ spc' = pc
  /\ rpc' = [rpc EXCEPT ![StartupPass] = "loop"]
  /\ rqueue' = [rqueue EXCEPT ![StartupPass] = <<n>>]
  /\ rcount' = [rcount EXCEPT ![StartupPass] = 0]
  /\ UNCHANGED <<squeue, vqueue>>

verifyVars == <<vtimer, vdel, vlog>>
quietVars == <<nextObj, dbStatus, robj, inst, now, cronFiredAt, sweepVars, task, kstep, kwritten, conf,
               opsVars>>

\* restoreAllSessions up to its first await: with the cache tier enabled
\* restoreFromRedisCache starts the scan of cleanupCorruptedKeys when the cache object
\* has one (`if (this.cache?.cleanupCorruptedKeys)`, sweep), and lists the keys if not.
RestoreAllSessions(sweep) ==
  /\ spc = "idle"
  /\ IF conf.redis /\ Keys(redis) # <<>>
     THEN /\ spc' = IF sweep THEN "cleanup" ELSE "redisLoop"
          /\ squeue' = Keys(redis)
          /\ UNCHANGED <<rpc, vqueue>>
     ELSE squeue' = <<>> /\ EnterStage(StageAfterRedis(0))
  /\ slog' = [NoLog EXCEPT !.ev = "start", !.hash = sweep]
  /\ UNCHANGED <<redis, scount, rqueue, rcount, waInstances, liveObjs, restoredMarker>>
  /\ UNCHANGED <<quietVars, verifyVars>>

\* cleanupCorruptedKeys for the next key of the scan: client.type, the expected shape,
\* client.del; after the last key restoreFromRedisCache lists the keys.
CleanupCorruptedKeys ==
  /\ spc = "cleanup"
  /\ LET logicalKey == LogicalKey(Head(squeue))
         del == Corrupted(logicalKey, redis[logicalKey].type)
         r2 == IF del THEN [redis EXCEPT ![logicalKey] = NoKey] ELSE redis
     IN /\ redis' = r2
        /\ slog' = [ev |-> IF del THEN "cleaned" ELSE "kept", key |-> logicalKey, n |-> None,
                    hash |-> ShouldBeHash(logicalKey)]
        /\ IF Tail(squeue) # <<>>
           THEN squeue' = Tail(squeue) /\ UNCHANGED <<spc, rpc, vqueue>>
           ELSE IF Keys(r2) = <<>>
           THEN squeue' = <<>> /\ EnterStage(StageAfterRedis(0))
           ELSE squeue' = Keys(r2) /\ spc' = "redisLoop" /\ UNCHANGED <<rpc, vqueue>>
  /\ UNCHANGED <<scount, rqueue, rcount, waInstances, liveObjs, restoredMarker>>
  /\ UNCHANGED <<quietVars, verifyVars>>

\* restoreFromRedisCache for the next key: the filter, cache.get and the validation of
\* the record, up to the call of restoreInstance.
RestoreFromRedisCache ==
  /\ spc = "redisLoop"
  /\ LET instanceKey == InstanceKeyOf(Head(squeue)) IN
       IF instanceKey = <<>> \/ SkipKey(instanceKey)
       THEN /\ slog' = [NoLog EXCEPT !.ev = "skipped", !.key = instanceKey]
            /\ NextRedisKey(scount)
            /\ UNCHANGED <<redis, rqueue, rcount>>
       ELSE LET o == Run(redis, NewOp("get", instanceKey, NoField, Null, 0))
                parsedData == CacheService(o.tk).res
            IN /\ redis' = o.r
               /\ slog' = [NoLog EXCEPT !.ev = "read", !.key = instanceKey]
               /\ IF IsInstanceData(parsedData)
                  THEN CallRestoreInstance(NameIndex(parsedData.instanceName), "redisRestore")
                  ELSE NextRedisKey(scount) /\ UNCHANGED <<rqueue, rcount>>
  /\ UNCHANGED <<scount, waInstances, liveObjs, restoredMarker>>
  /\ UNCHANGED <<quietVars, verifyVars>>

\* restoreFromRedisCache after `await this.restoreInstance(parsedData)`: restored++, or
\* the catch (redisError) with the lookup of the key in the durable tier.
RestoreInstanceReturns ==
  /\ spc = "redisRestore"
  /\ rpc[StartupPass] = "done"
  /\ LET instanceKey == InstanceKeyOf(Head(squeue))
         dbInstance == FindInstanceInDatabase(instanceKey)
     IN IF rcount[StartupPass] > 0
        THEN /\ scount' = scount + 1
             /\ slog' = [NoLog EXCEPT !.ev = "restored", !.key = instanceKey]
             /\ NextRedisKey(scount + 1)
             /\ UNCHANGED <<rqueue, rcount>>
        ELSE /\ scount' = scount
             /\ slog' = [NoLog EXCEPT !.ev = "redisError", !.key = instanceKey]
             /\ IF conf.db /\ dbInstance # None
                THEN CallRestoreInstance(dbInstance, "dbFallback")
                ELSE NextRedisKey(scount) /\ UNCHANGED <<rqueue, rcount>>
  /\ UNCHANGED <<redis, waInstances, liveObjs, restoredMarker>>
  /\ UNCHANGED <<quietVars, verifyVars>>

\* restoreFromRedisCache after `await this.restoreInstance(dbInstance)` of the
\* fallback: restored++, or the catch of the loop.
DatabaseFallbackReturns ==
  /\ spc = "dbFallback"
  /\ rpc[StartupPass] = "done"
  /\ LET c == IF rcount[StartupPass] > 0 THEN scount + 1 ELSE scount IN
       /\ scount' = c
       /\ slog' = [NoLog EXCEPT !.ev = "fallback", !.key = InstanceKeyOf(Head(squeue))]
       /\ NextRedisKey(c)
  /\ UNCHANGED <<redis, rqueue, rcount, waInstances, liveObjs, restoredMarker>>
  /\ UNCHANGED <<quietVars, verifyVars>>

\* restoreAllSessions after `await this.restoreFromDatabase(clientName)`
RestoreFromDatabaseReturns ==
  /\ spc = "db"
  /\ rpc[StartupPass] = "done"
  /\ scount' = scount + rcount[StartupPass]
  /\ slog' = [NoLog EXCEPT !.ev = "dbDone", !.n = rcount[StartupPass]]
  /\ EnterStage(StageAfterDb(scount + rcount[StartupPass]))
  /\ UNCHANGED <<redis, squeue, rqueue, rcount, waInstances, liveObjs, restoredMarker>>
  /\ UNCHANGED <<quietVars, verifyVars>>

\* restoreFromProviderFiles: returns 0
RestoreFromProviderFiles ==
  /\ spc = "files"
  /\ slog' = [NoLog EXCEPT !.ev = "files"]
  /\ EnterStage("verify")
  /\ UNCHANGED <<redis, squeue, scount, rqueue, rcount, waInstances, liveObjs, restoredMarker>>
  /\ UNCHANGED <<quietVars, verifyVars>>

\* verifyRestoredConnections for the next name: `await this.cache.get(`restored:${name}`)`
\* and the timer of verifyInstanceConnection.
VerifyRestoredConnections ==
  /\ spc = "verify"
  /\ vqueue # <<>>
  /\ vtimer' = [vtimer EXCEPT ![Head(vqueue)] =
                  IF restoredMarker[Head(vqueue)] THEN @ + 1 ELSE @]
  /\ vqueue' = Tail(vqueue)
  /\ slog' = [NoLog EXCEPT !.ev = "markerRead", !.n = Head(vqueue)]
  /\ UNCHANGED <<redis, spc, squeue, scount, rpc, rqueue, rcount, waInstances, liveObjs,
                 restoredMarker, vdel, vlog>>
  /\ UNCHANGED quietVars

\* restoreAllSessions returns.
RestoreAllSessionsReturns ==
  /\ spc = "verify"
  /\ vqueue = <<>>
  /\ spc' = "done"
  /\ slog' = [NoLog EXCEPT !.ev = "done"]
  /\ UNCHANGED <<redis, squeue, scount, vqueue, rpc, rqueue, rcount, waInstances, liveObjs,
                 restoredMarker>>
  /\ UNCHANGED <<quietVars, verifyVars>>

StartupKeys == {ScanOrder[i] : i \in 1..Len(ScanOrder)}

\* What an earlier run left under a key: the record that persistInstanceState stored
\* under the instance's id, or under its name when it had no id (the status is the one
\* of the durable record), a marker, or the hash of the credentials.
EntryLeft(k, status) ==
  CASE \E n \in Names : k \in {NameKey(n), IdKey(n)} ->
         LET n == CHOOSE m \in Names : k \in {NameKey(m), IdKey(m)}
         IN StringEntry(Stringify(InstanceData(n, k = IdKey(n), status[n])), 0)
    [] \E n \in Names : k = AuthKey(n) ->
         HashEntry([EmptyHash EXCEPT !["creds"] = Stringify(OldValue)], 0)
    [] \E n \in Names : k = ConnectingTimeKey(n) -> StringEntry(Stringify(Text("now")), CONNECTING_TIME_TTL)
    [] OTHER -> StringEntry(Stringify(Text("true")), MARKER_TTL)

\* The process has started, or restoreAllSessions is invoked by hand with the last
\* instance registered already: the tiers that are enabled, the durable records and at
\* most MaxKeys keys in the cache.
InitStartupWith(keys) ==
  /\ InitSweeps
  /\ InitTasks
  /\ InitNoStartup
  /\ inst = [n \in Names |-> NewInstance(Baileys, "close", FALSE)]
  /\ nextObj = 1
  /\ restoredMarker = [n \in Names |-> FALSE]
  /\ rpc = [p \in Passes |-> IF p = StartupPass THEN "wait" ELSE "idle"]
  /\ rqueue = [p \in Passes |-> <<>>]
  /\ robj = [p \in Passes |-> None]
  /\ rcount = [p \in Passes |-> 0]
  /\ conf \in [redis : BOOLEAN, db : BOOLEAN]
  /\ dbStatus \in [Names -> {"open", "connecting", "close"}]
  /\ \E pre \in {{}, {NumInstances}} :
       /\ waInstances = [n \in Names |-> IF n \in pre THEN PreObj ELSE None]
       /\ liveObjs = [n \in Names |-> IF n \in pre THEN {PreObj} ELSE {}]
  /\ \E K \in SUBSET keys :
       /\ Cardinality(K) <= MaxKeys
       /\ redis = [k \in K |-> EntryLeft(k, dbStatus)]

InitStartup == InitStartupWith(StartupKeys)

NextStartup ==
  \/ \E sweep \in BOOLEAN : RestoreAllSessions(sweep)
  \/ CleanupCorruptedKeys
  \/ RestoreFromRedisCache
  \/ RestoreInstanceReturns
  \/ DatabaseFallbackReturns
  \/ RestoreFromDatabase(StartupPass)
  \/ RestoreInstance(StartupPass)
  \/ SetInstance(StartupPass)
  \/ MarkRestored(StartupPass)
  \/ SetInstanceThrows(StartupPass)
  \/ RestoreFromDatabaseReturns
  \/ RestoreFromProviderFiles
  \/ VerifyRestoredConnections
  \/ RestoreAllSessionsReturns

SpecStartup == InitStartup /\ [][NextStartup]_vars

\* ------------------------------------------------- the restoration marker
passVars == <<spc, squeue, scount, vqueue, rpc, rqueue, rcount, redis>>
States == {"open", "connecting", "close"}

\* A verification that gives up on an instance that is still connecting (not what the
\* code does).
VerificationBranchFailFast(st, functional) ==
  IF st = "open" /\ functional THEN "passed" ELSE "reconnect"

\* A verification that schedules a further check whatever it finds (not what the code
\* does).
VerificationBranchAgain(st, functional) == "rescheduled"

\* verifyInstanceConnection: the branch taken for the state and for
\* `instance.client && instance.instanceId`.
VerificationBranch(st, functional) ==
  IF st = "open" THEN IF functional THEN "passed" ELSE "reconnect"
  ELSE IF st = "connecting" THEN "rescheduled"
  ELSE "reconnect"

\* The timer of verifyInstanceConnection(name) fires; st and functional are what
\* instance.connectionStatus and `instance.client && instance.instanceId` give, deleted
\* is whether the DEL of the marker reaches the server (RedisCache.delete logs an error
\* and returns).  Up to the await of attemptReconnection, or to the end.
\* vlog records the step: the timers it scheduled and the reconnections it started are
\* read off the timers and the pending calls before and after it.
VerifyInstanceConnection(n, st, functional, deleted) ==
  /\ vtimer[n] > 0
  /\ LET branch == VerificationBranch(st, functional) IN
     IF waInstances[n] = None
     THEN /\ vtimer' = [vtimer EXCEPT ![n] = @ - 1]
          /\ UNCHANGED <<restoredMarker, vdel>>
     ELSE IF branch = "reconnect"
     THEN /\ vtimer' = [vtimer EXCEPT ![n] = @ - 1]
          /\ vdel' = [vdel EXCEPT ![n] = @ \cup {"reconnect"}]
          /\ UNCHANGED restoredMarker
     ELSE /\ vtimer' = [vtimer EXCEPT ![n] = IF branch = "rescheduled" THEN @ ELSE @ - 1]
          /\ restoredMarker' = [restoredMarker EXCEPT ![n] = @ /\ ~deleted]
          /\ UNCHANGED vdel
  /\ vlog' = [n |-> n,
              outcome |-> IF waInstances[n] = None THEN "notFound"
                          ELSE IF "reconnect" \in vdel'[n] THEN "none"
                          ELSE VerificationBranch(st, functional),
              marker |-> restoredMarker'[n] /\ "reconnect" \notin vdel'[n],
              st |-> IF waInstances[n] = None THEN "none" ELSE st,
              functional |-> functional,
              reconnects |-> Cardinality(vdel'[n] \ vdel[n]),
              scheduled |-> vtimer'[n] - (vtimer[n] - 1)]
  /\ slog' = NoLog
  /\ UNCHANGED <<passVars, waInstances, liveObjs, quietVars>>

\* verifyInstanceConnection after `await this.attemptReconnection(...)`: the marker is
\* deleted.
AttemptReconnectionReturns(n, deleted) ==
  /\ "reconnect" \in vdel[n]
  /\ vdel' = [vdel EXCEPT ![n] = @ \ {"reconnect"}]
  /\ restoredMarker' = [restoredMarker EXCEPT ![n] = @ /\ ~deleted]
  /\ vlog' = [NoVerification EXCEPT !.n = n, !.outcome = "reconnect",
                                    !.marker = restoredMarker[n] /\ ~deleted, !.st = "returned",
                                    !.reconnects = Cardinality(vdel'[n] \ vdel[n])]
  /\ slog' = NoLog
  /\ UNCHANGED <<passVars, waInstances, liveObjs, vtimer, quietVars>>

\* The remove.instance handler after its webhook: instance.state.remove is emitted,
\* cleaningUp closes the durable record and the name leaves the registry.
RemoveFromRegistry(n) ==
  /\ waInstances' = [waInstances EXCEPT ![n] = None]
  /\ liveObjs' = [liveObjs EXCEPT ![n] = {}]
  /\ dbStatus' = IF conf.db THEN [dbStatus EXCEPT ![n] = "close"] ELSE dbStatus
  /\ vdel' = [vdel EXCEPT ![n] = @ \cup {"remove"}]
  /\ slog' = NoLog
  /\ vlog' = NoVerification
  /\ UNCHANGED <<passVars, restoredMarker, vtimer>>
  /\ UNCHANGED <<nextObj, robj, inst, now, cronFiredAt, sweepVars, task, kstep, kwritten, conf>>

\* remove.instance is emitted for a registered instance (by any of its emitters) and
\* its handler runs as above.
RemoveInstance(n) ==
  /\ spc = "done"
  /\ waInstances[n] # None
  /\ RemoveFromRegistry(n)
  /\ UNCHANGED opsVars

\* removeInstanceState, run by the instance.state.remove listener: the DEL of the
\* restored:<name> marker.
RemoveInstanceState(n, deleted) ==
  /\ "remove" \in vdel[n]
  /\ vdel' = [vdel EXCEPT ![n] = @ \ {"remove"}]
  /\ restoredMarker' = [restoredMarker EXCEPT ![n] = @ /\ ~deleted]
  /\ slog' = NoLog
  /\ vlog' = NoVerification
  /\ UNCHANGED <<passVars, waInstances, liveObjs, vtimer, quietVars>>

\* The TTL of the restored:<name> marker runs out.
ExpireRestoredMarker(n) ==
  /\ spc = "done"
  /\ restoredMarker[n]
  /\ SetExpiry(MARKER_TTL) > 0
  /\ restoredMarker' = [restoredMarker EXCEPT ![n] = FALSE]
  /\ slog' = NoLog
  /\ vlog' = NoVerification
  /\ UNCHANGED <<passVars, waInstances, liveObjs, vtimer, vdel, quietVars>>

InitMarker == InitStartupWith({NameKey(1)})

NextMarker ==
  \/ NextStartup
  \/ \E n \in Names, st \in States, functional, deleted \in BOOLEAN :
       VerifyInstanceConnection(n, st, functional, deleted)
  \/ \E n \in Names, deleted \in BOOLEAN : AttemptReconnectionReturns(n, deleted)
  \/ \E n \in Names : RemoveInstance(n)
  \/ \E n \in Names, deleted \in BOOLEAN : RemoveInstanceState(n, deleted)
  \/ \E n \in Names : ExpireRestoredMarker(n)

SpecMarker == InitMarker /\ [][NextMarker]_vars

\* ------------------------------------------------------- the eviction timer
EvictPass == 2          \* the pass of the restoreFromDatabase that the timer calls

\* checkCacheAvailability with the commands of the probe answered one after the other:
\* set(testKey, 'test', 5), get(testKey), delete(testKey); `result === 'test'`.
ProbeRoundTrip(r, n) ==
  LET s == Run(r, NewOp("set", TestKey(n), NoField, Text("test"), PROBE_TTL))
      g == Run(s.r, NewOp("get", TestKey(n), NoField, Null, 0))
      d == Run(g.r, NewOp("delete", TestKey(n), NoField, Null, 0))
  IN [r |-> d.r, available |-> CacheService(g.tk).res = Text("test")]

evictFrame == <<spc, squeue, scount, slog, vqueue, vtimer, vdel, vlog, shut, send,
                task, kstep, kwritten, conf, now, cronFiredAt, sweepVars>>

\* Date.now() counts from 1970 and the clock of the model from a recent instant.
EpochOffset == 1000000000
DateNow(t) == EpochOffset + t
EVICT_GRACE == 300000            \* ms, `connectingDuration < 300000`

\* `Date.now() - (this.waInstances[instance]?.connectingStartTime || 0)`; start is
\* NoTime when the property is undefined.
ConnectingDuration(start, t) == DateNow(t) - (IF start = NoTime THEN 0 ELSE DateNow(start))

\* The callback of the timer of delInstanceTime(instance) up to its first await.  The
\* state is read through the connectionStatus getter.  A connecting instance is given
\* more time, or the cache is probed; an instance in any other state that is not open
\* is handed to remove.instance at once.  No code of the services assigns
\* connectingStartTime; assigned: the Instance holds the start of its connect attempt
\* in it, else the property is undefined.
DelInstanceTime(assigned) ==
  /\ evict.pc = "armed"
  /\ LET n == evict.n
         i == ConnectionStatus(Begin(inst[n]), now)
         state == IF waInstances[n] = None THEN "undefined" ELSE i.state
         connectingStartTime == IF assigned THEN i.connectingTime ELSE NoTime
         within == ConnectingDuration(connectingStartTime, now) < EVICT_GRACE
         young == /\ state = "connecting" /\ i.connectingTime # NoTime
                  /\ now - i.connectingTime < EVICT_GRACE
     IN /\ inst' = IF waInstances[n] = None THEN inst ELSE [inst EXCEPT ![n] = i]
        /\ evict' =
             [(CASE state = "open" -> [evict EXCEPT !.pc = "done", !.ev = "open"]
                 [] state = "connecting" /\ within -> [evict EXCEPT !.ev = "extended"]
                 [] state = "connecting" /\ ~within -> [evict EXCEPT !.pc = "probe", !.ev = "probing"]
                 [] OTHER -> [evict EXCEPT !.pc = "remove", !.ev = "emitClosed"])
                EXCEPT !.young = young, !.expiries = Min(@ + 1, MaxCount)]
  /\ UNCHANGED <<evictFrame, redis, restoreVars, dbStatus>>

\* The force-logout branch: `await client.logout(...)` for a Baileys instance, the
\* remove.instance event at once for any other.
ForceLogout(ev, n, recovery) ==
  IF inst[n].integration = Baileys
  THEN [ev EXCEPT !.pc = "logout", !.loggedOut = TRUE, !.recovery = recovery, !.ev = "logout"]
  ELSE [ev EXCEPT !.pc = "remove", !.recovery = recovery, !.ev = "emitTimeout"]

\* After `await this.checkCacheAvailability(instance)`: with the cache unavailable
\* restoreFromDatabase is called, else the instance is logged out.
CheckCacheAvailabilityReturns ==
  /\ evict.pc = "probe"
  /\ LET probe == ProbeRoundTrip(redis, evict.n)
         cacheAvailable == evict.reachable /\ probe.available
     IN /\ redis' = IF evict.reachable THEN probe.r ELSE redis
        /\ IF cacheAvailable
           THEN /\ evict' = ForceLogout([evict EXCEPT !.probed = TRUE], evict.n, "none")
                /\ UNCHANGED rpc
           ELSE /\ evict' = [evict EXCEPT !.pc = "recover", !.probed = TRUE, !.ev = "recovering"]
                /\ rpc' = [rpc EXCEPT ![EvictPass] = "idle"]
  /\ UNCHANGED <<evictFrame, inst, dbStatus, waInstances, liveObjs, nextObj, restoredMarker,
                 rqueue, robj, rcount>>

\* After `await sessionRestoration.restoreFromDatabase(...)`: `restored > 0` ends the
\* callback, else the instance is logged out.
RecoveryReturns ==
  /\ evict.pc = "recover"
  /\ rpc[EvictPass] = "done"
  /\ rpc' = [rpc EXCEPT ![EvictPass] = "wait"]
  /\ evict' = IF rcount[EvictPass] > 0
              THEN [evict EXCEPT !.pc = "done", !.recovery = "recovered", !.ev = "recovered"]
              ELSE ForceLogout(evict, evict.n, "failed")
  /\ UNCHANGED <<evictFrame, redis, inst, dbStatus, waInstances, liveObjs, nextObj,
                 restoredMarker, rqueue, robj, rcount>>

\* After `await client.logout(...)`: the socket is closed and remove.instance emitted;
\* a logout that rejects ends the callback.
LoggedOut(ok) ==
  /\ evict.pc = "logout"
  /\ IF ok
     THEN /\ inst' = [inst EXCEPT ![evict.n] = [WsClose(Begin(@)) EXCEPT !.user = FALSE]]
          /\ evict' = [evict EXCEPT !.pc = "remove", !.ev = "emitTimeout"]
     ELSE /\ evict' = [evict EXCEPT !.pc = "done", !.ev = "logoutRejected"]
          /\ UNCHANGED inst
  /\ UNCHANGED <<evictFrame, redis, restoreVars, dbStatus>>

\* The remove.instance handler for the instance of the timer, after
\* `await sendDataWebhook(...)`: resolved, the handler goes on as in RemoveFromRegistry;
\* rejected, it ends after its finally block with the instance still registered.
RemoveEvicted(ok) ==
  /\ evict.pc = "remove"
  /\ IF ok
     THEN /\ RemoveFromRegistry(evict.n)
          /\ evict' = [evict EXCEPT !.pc = "done", !.removed = TRUE, !.ev = "removed"]
     ELSE /\ evict' = [evict EXCEPT !.pc = "done", !.ev = "webhookRejected"]
          /\ UNCHANGED <<evictFrame, redis, restoreVars, dbStatus, inst>>
  /\ UNCHANGED <<shut, send>>

\* restoreAllSessions has returned, instance 1 has its timer armed; the cache answers
\* or not (reachable) while the timer's callback runs.
InitEvict ==
  /\ InitSweeps
  /\ InitTasks
  /\ spc = "done"
  /\ squeue = <<>>
  /\ scount = 0
  /\ slog = NoLog
  /\ vqueue = <<>>
  /\ vtimer = [n \in Names |-> 0]
  /\ vdel = [n \in Names |-> {}]
  /\ vlog = NoVerification
  /\ shut = NoShutdown
  /\ send = NoSend
  /\ \E reachable \in BOOLEAN : evict = [NoEvict EXCEPT !.n = 1, !.pc = "armed", !.reachable = reachable]
  /\ conf \in [redis : {TRUE}, db : BOOLEAN]
  /\ redis = [k \in {TestKey(1)} |-> NoKey]
  /\ \E i \in StartStates, integ \in {Baileys, "WHATSAPP-BUSINESS"} :
       inst = [n \in Names |-> IF n = 1 THEN [i EXCEPT !.integration = integ]
                                        ELSE NewInstance(Baileys, "close", FALSE)]
  /\ \E other \in {None, 2} :
       /\ waInstances = [n \in Names |-> IF n = 1 THEN 1 ELSE other]
       /\ liveObjs = [n \in Names |-> IF waInstances[n] = None THEN {} ELSE {waInstances[n]}]
  /\ nextObj = NumInstances + 1
  /\ dbStatus \in [Names -> States]
  /\ restoredMarker = [n \in Names |-> FALSE]
  /\ rpc = [p \in Passes |-> "wait"]
  /\ rqueue = [p \in Passes |-> <<>>]
  /\ robj = [p \in Passes |-> None]
  /\ rcount = [p \in Passes |-> 0]

NextEvict ==
  \/ \E assigned \in BOOLEAN : DelInstanceTime(assigned)
  \/ CheckCacheAvailabilityReturns
  \/ RestoreFromDatabase(EvictPass)
  \/ RestoreInstance(EvictPass)
  \/ SetInstance(EvictPass)
  \/ MarkRestored(EvictPass)
  \/ SetInstanceThrows(EvictPass)
  \/ RecoveryReturns
  \/ \E ok \in BOOLEAN : LoggedOut(ok)
  \/ \E ok \in BOOLEAN : RemoveEvicted(ok)
  \/ \E n \in Names, deleted \in BOOLEAN : RemoveInstanceState(n, deleted)

SpecEvict == InitEvict /\ [][NextEvict]_vars

\* --------------------------------------------------------- graceful shutdown
SHUTDOWN_TIMEOUT == 30000      \* ms, shutdownTimeout
CLOSE_TIMEOUT == 5000          \* ms, the timer of closeBaileysConnection
CLEANUP_DELAY == 1000          \* ms, the timer of cleanupResources
ShutdownTick == 10000          \* ms, the step of the clock while the drain waits
Triggers == {"SIGTERM", "SIGINT", "SIGHUP", "shutdown"}

shutFrame == <<waInstances, liveObjs, nextObj, restoredMarker, rpc, rqueue, robj, rcount, now,
               cronFiredAt, hpc, hqueue, hsnapshot, hchecked, hstart, hobs, hthrown, running,
               task, kstep, kwritten, conf, startVars, evict, send>>

\* One entry of the record of what the drain did, in the order it did it.
Event(ev, n) == [ev |-> ev, n |-> n]
EventsOf(ev, names) == [j \in 1..Len(names) |-> Event(ev, names[j])]
Before(log, e, i) == \E j \in 1..(i - 1) : log[j] = e

\* `if (this.isShuttingDown)` without the flag.
IsShuttingDownNever(sh) == FALSE

\* `if (this.isShuttingDown) { ...; return; }`
IsShuttingDown(sh) == sh.isShuttingDown

\* initiateShutdown without its setTimeout.
ForceExitNever(t) == NoTime

\* `setTimeout(() => { process.exit(1) }, this.shutdownTimeout)`: when it is due.
ForceExitTimer(t) == t + SHUTDOWN_TIMEOUT

\* Promise.race in the place of Promise.allSettled.
AnySettled(pending) == TRUE

\* `await Promise.allSettled(savePromises)`
AllSettled(pending) == pending = {}

\* `process.exit(0)` after performGracefulShutdown, `process.exit(1)` in the catch.
ExitCode(failed, thrown) == IF thrown THEN 1 ELSE 0

\* A 5 s timer that wins the race against a close that is not reported.
TerminatedAfterTimeout(raised, hang) == raised \cup hang

\* The catch of closeBaileysConnection, `instance.client.ws.terminate()`: the sockets
\* it reaches, of those whose close was asked for.
Terminated(raised, hang) == raised

\* closeBaileysConnection for one instance, all of it: closeConnection holds no await,
\* so the race is decided when it is called. thrown: a call on the socket raised and
\* the catch terminated the socket. hangs: the socket takes the close and never
\* reports it closed.
CloseBaileysConnection(i, thrown, hangs) ==
  IF ~i.client THEN i
  ELSE LET c == WriteState(Begin(i), "close", "shutdown", now, now)
       IN IF thrown \/ hangs THEN [c EXCEPT !.wsOpen = FALSE] ELSE WsClose(c)

\* closeAllConnections and, after it, cleanupResources up to its timer: nothing in
\* closeAllConnections waits for I/O.
CloseAllConnections(sh, ins, thrown) ==
  LET names == SeqOfSet(Registered)
      closers == {n \in Registered : ins[n].integration = Baileys}
      asked == {n \in closers : ins[n].client}
  IN [sh |-> [sh EXCEPT !.pc = "cleanup",
                        !.log = @ \o EventsOf("close", names) \o EventsOf("closed", names)
                                  \o <<Event("cleanup", None)>>,
                        !.closeDue = IF closers = {} THEN NoTime ELSE sh.t + CLOSE_TIMEOUT,
                        !.cleanupDue = sh.t + CLEANUP_DELAY,
                        !.closing = (asked \ thrown) \cap {n \in Names : ins[n].wsOpen},
                        !.raised = asked \cap thrown,
                        !.terminated = Terminated(asked \cap thrown, asked \cap sh.hang),
                        !.failed = @ \/ (asked \cap thrown # {})],
      inst |-> [n \in Names |->
                  IF n \in closers
                  THEN CloseBaileysConnection(ins[n], n \in thrown, n \in sh.hang)
                  ELSE ins[n]]]

\* A saveAllInstanceStates that reads each status after the instance's transport
\* close.
SaveAfterClose(sh, ins) ==
  LET names == SeqOfSet(Registered)
      read == [n \in Names |->
                 IF n \in Registered /\ ins[n].integration = Baileys
                 THEN CloseBaileysConnection(ins[n], FALSE, FALSE)
                 ELSE ins[n]]
      waits == IF conf.redis \/ conf.db THEN Registered ELSE {}
  IN [sh |-> [sh EXCEPT !.pc = "persist",
                        !.k = Cardinality(Registered),
                        !.attempts = Cardinality(Registered),
                        !.status = [n \in Names |-> read[n].state],
                        !.saving = waits,
                        !.log = @ \o EventsOf("persist", names)
                                  \o EventsOf("settled", SeqOfSet(Registered \ waits))],
      inst |-> read]

\* saveAllInstanceStates up to `await Promise.allSettled(savePromises)`: every
\* registered instance's status is read and its persistInstanceState called; the call
\* waits for I/O when a tier is enabled.
SaveAllInstanceStates(sh, ins) ==
  LET names == SeqOfSet(Registered)
      read == [n \in Names |-> IF n \in Registered THEN ConnectionStatus(Begin(ins[n]), now)
                                                   ELSE ins[n]]
      waits == IF conf.redis \/ conf.db THEN Registered ELSE {}
  IN [sh |-> [sh EXCEPT !.pc = "persist",
                        !.k = Cardinality(Registered),
                        !.attempts = Cardinality(Registered),
                        !.status = [n \in Names |-> read[n].state],
                        !.saving = waits,
                        !.log = @ \o EventsOf("persist", names)
                                  \o EventsOf("settled", SeqOfSet(Registered \ waits))],
      inst |-> read]

\* initiateShutdown, called by a signal handler or by shutdown(): the first call sets
\* the flag and the forced-exit timer and runs performGracefulShutdown up to its first
\* wait for I/O; stopThrows: stopHealthMonitoring raised, which performGracefulShutdown
\* rethrows.
InitiateShutdown(trigger, stopThrows, closeThrows) ==
  /\ running = None
  /\ shut.exit = Running
  /\ IF IsShuttingDown(shut)
     THEN /\ shut' = [shut EXCEPT !.ignored = Min(@ + 1, MaxCount)]
          /\ UNCHANGED inst
     ELSE LET sh == [shut EXCEPT !.isShuttingDown = TRUE,
                                 !.drains = Min(@ + 1, MaxCount),
                                 !.deadline = ForceExitTimer(shut.t),
                                 !.health = "stopped",
                                 !.log = @ \o <<Event("stopHealth", None)>>]
              saved == SaveAllInstanceStates(sh, inst)
              closed == CloseAllConnections(saved.sh, saved.inst, closeThrows)
          IN IF stopThrows
             THEN /\ shut' = [sh EXCEPT !.health = "running", !.pc = "exited", !.failed = TRUE,
                                        !.exit = ExitCode(TRUE, TRUE)]
                  /\ UNCHANGED inst
             ELSE IF AllSettled(saved.sh.saving)
             THEN /\ shut' = closed.sh
                  /\ inst' = closed.inst
             ELSE /\ shut' = saved.sh
                  /\ inst' = saved.inst
  /\ UNCHANGED <<shutFrame, redis, dbStatus>>

\* persistInstanceState returns for one instance: the cache write, then the update of
\* the durable record; either may fail and is logged by persistInstanceState. The
\* last to return lets closeAllConnections and cleanupResources run.
PersistSettles(n, cacheOk, dbOk, closeThrows) ==
  /\ running = None
  /\ shut.exit = Running
  /\ shut.pc = "persist"
  /\ n \in shut.saving
  /\ LET data == InstanceData(n, TRUE, shut.status[n])
         toDb == conf.db /\ (~conf.redis \/ cacheOk)
         failed == (conf.redis /\ ~cacheOk) \/ (toDb /\ ~dbOk)
         sh == [shut EXCEPT !.saving = @ \ {n},
                            !.failed = @ \/ failed,
                            !.log = Append(@, Event("settled", n))]
         closed == CloseAllConnections(sh, inst, closeThrows)
     IN /\ redis' = IF conf.redis /\ cacheOk
                    THEN Run(redis, NewOp("set", IdKey(n), NoField, data, 0)).r
                    ELSE redis
        /\ dbStatus' = IF toDb /\ dbOk THEN [dbStatus EXCEPT ![n] = shut.status[n]] ELSE dbStatus
        /\ IF AllSettled(sh.saving)
           THEN shut' = closed.sh /\ inst' = closed.inst
           ELSE shut' = sh /\ UNCHANGED inst
  /\ UNCHANGED shutFrame

\* The transport reports a socket closed.
TransportClosed(n) ==
  /\ shut.exit = Running
  /\ n \in shut.closing \ shut.hang
  /\ shut' = [shut EXCEPT !.closing = @ \ {n}]
  /\ UNCHANGED <<shutFrame, inst, redis, dbStatus>>

\* The timers that are set and have not run.
TimersOf(sh) == {sh.deadline, sh.cleanupDue, sh.closeDue} \ {NoTime}

\* Time passes while the drain waits, up to the next timer.
ShutdownClock ==
  /\ shut.exit = Running
  /\ shut.isShuttingDown
  /\ shut.t < SHUTDOWN_TIMEOUT
  /\ \A d \in TimersOf(shut) : shut.t < d
  /\ LET t == shut.t + ShutdownTick
     IN shut' = [shut EXCEPT !.t = IF \E d \in TimersOf(shut) : d < t
                                   THEN CHOOSE d \in TimersOf(shut) :
                                          \A e \in TimersOf(shut) : d <= e
                                   ELSE t]
  /\ UNCHANGED <<shutFrame, inst, redis, dbStatus>>

\* The timer of cleanupResources runs: performGracefulShutdown returns and
\* initiateShutdown calls process.exit(0).
CleanupResourcesReturns ==
  /\ running = None
  /\ shut.exit = Running
  /\ shut.pc = "cleanup"
  /\ shut.t = shut.cleanupDue
  /\ shut.deadline = NoTime \/ shut.t < shut.deadline
  /\ shut' = [shut EXCEPT !.pc = "exited", !.exit = ExitCode(shut.failed, FALSE),
                          !.log = Append(@, Event("released", None))]
  /\ UNCHANGED <<shutFrame, inst, redis, dbStatus>>

\* The forced-exit timer runs: process.exit(1).
ForceExit ==
  /\ running = None
  /\ shut.exit = Running
  /\ shut.deadline # NoTime
  /\ shut.t = shut.deadline
  /\ shut' = [shut EXCEPT !.pc = "exited", !.exit = 1]
  /\ UNCHANGED <<shutFrame, inst, redis, dbStatus>>

\* A running process: up to NumInstances registered instances, connected or not, some
\* of them with a transport that never reports a close; the tiers that are enabled.
InitShutdown ==
  /\ InitPasses
  /\ InitSweeps
  /\ InitTasks
  /\ spc = "done"
  /\ squeue = <<>>
  /\ scount = 0
  /\ slog = NoLog
  /\ vqueue = <<>>
  /\ vtimer = [n \in Names |-> 0]
  /\ vdel = [n \in Names |-> {}]
  /\ vlog = NoVerification
  /\ evict = NoEvict
  /\ send = NoSend
  /\ conf \in [redis : BOOLEAN, db : BOOLEAN]
  /\ redis = [k \in {IdKey(n) : n \in Names} |-> NoKey]
  /\ dbStatus = [n \in Names |-> "open"]
  /\ \E reg \in SUBSET Names :
       /\ waInstances = [n \in Names |-> IF n \in reg THEN n ELSE None]
       /\ liveObjs = [n \in Names |-> IF n \in reg THEN {n} ELSE {}]
       /\ inst \in [Names -> {NewInstance(Baileys, "open", TRUE),
                              NewInstance(Baileys, "close", FALSE),
                              NewInstance("WHATSAPP-BUSINESS", "open", FALSE)}]
       /\ \A n \in Names \ reg : inst[n] = NewInstance(Baileys, "close", FALSE)
       /\ \E hang \in SUBSET {n \in reg : inst[n].wsOpen} : shut = [NoShutdown EXCEPT !.hang = hang]

NextShutdown ==
  \/ \E trigger \in Triggers, stopThrows \in BOOLEAN, closeThrows \in SUBSET Names :
       InitiateShutdown(trigger, stopThrows, closeThrows)
  \/ \E n \in Names, cacheOk \in BOOLEAN, dbOk \in BOOLEAN, closeThrows \in SUBSET Names :
       PersistSettles(n, cacheOk, dbOk, closeThrows)
  \/ \E n \in Names : TransportClosed(n)
  \/ ShutdownClock
  \/ CleanupResourcesReturns
  \/ ForceExit

SpecShutdown == InitShutdown /\ [][NextShutdown]_vars

\* The timers run when they are due and the clock does not stop; nothing makes a
\* write to the cache or to the database return.
SpecShutdownLive ==
  /\ SpecShutdown
  /\ WF_vars(ShutdownClock)
  /\ WF_vars(CleanupResourcesReturns)
  /\ WF_vars(ForceExit)

\* A shutdown while the health monitor is at work: all instances registered, the
\* sweeps of the cron job and the drain share the event loop.
InitStop == InitSweep

NextStop ==
  \/ \E s \in Sweeps : CronFires(s)
  \/ \E s \in Sweeps : CheckInstanceHealth(s)
  \/ \E s \in Sweeps, ok \in BOOLEAN : AwaitReturns(s, ok)
  \/ \E s \in Sweeps : SweepEnds(s)
  \/ \E trigger \in Triggers : InitiateShutdown(trigger, FALSE, {})
  \/ \E n \in Names, dbOk \in BOOLEAN : PersistSettles(n, TRUE, dbOk, {})
  \/ ShutdownClock
  \/ CleanupResourcesReturns
  \/ ForceExit

SpecStop == InitStop /\ [][NextStop]_vars

\* ------------------------------------------------------------- send requests
\* BadRequestException of validateInstanceReady: which of its three texts, and the
\* instance name and the state that the text holds.
NoError == [text |-> "none", name |-> "", state |-> ""]
NotFound(n) == [text |-> "not found", name |-> InstanceName(n), state |-> ""]
NotReady(n, st) ==
  [text |-> "is not ready for message sending", name |-> InstanceName(n),
   state |-> IF st = "" THEN "unknown" ELSE st]
MissingComponents(n) ==
  [text |-> "is missing critical components", name |-> InstanceName(n), state |-> ""]

\* validateInstanceReady without the test of the state.
ValidateInstanceReadyAnyState(n, registered, st, client, hasId) ==
  IF ~registered THEN NotFound(n)
  ELSE IF ~client \/ ~hasId THEN MissingComponents(n)
  ELSE NoError

\* validateInstanceReady(instanceName): the exception it throws, NoError when it
\* returns. st is what `instance.connectionStatus?.state` returned.
ValidateInstanceReady(n, registered, st, client, hasId) ==
  IF ~registered THEN NotFound(n)
  ELSE IF st # "open" THEN NotReady(n, st)
  ELSE IF ~client \/ ~hasId THEN MissingComponents(n)
  ELSE NoError

\* A send method of SendMessageController (sendText, sendMedia, ...) for the instance
\* n: the validation, and the call of the instance's sender if it returns; the send
\* completes on an open socket. hasId: instance.instanceId is set.
Send(n, hasId) ==
  /\ running = None
  /\ LET registered == n \in Registered
         i == IF registered THEN ConnectionStatus(Begin(inst[n]), now) ELSE inst[n]
         error == ValidateInstanceReady(n, registered, i.state, i.client, hasId)
     IN /\ send' = [n |-> n, registered |-> registered,
                    state |-> IF registered THEN i.state ELSE "none",
                    client |-> registered /\ i.client, hasId |-> registered /\ hasId,
                    invoked |-> error = NoError, error |-> error]
        /\ inst' = [inst EXCEPT ![n] = IF error = NoError /\ i.wsOpen
                                       THEN [i EXCEPT !.lastMessageSentTime = now]
                                       ELSE i]
  /\ UNCHANGED <<storeVars, startVars, evict, shut, restoreVars, dbStatus, now, cronFiredAt,
                 sweepVars>>

\* One registered instance in any state of its connection, one name that is not
\* registered.
InitSend == InitHealth

\* Send requests between the events of the transport and their handlers.
NextSend ==
  \/ \E n \in Names, hasId \in BOOLEAN : Send(n, hasId)
  \/ \E n \in Names : TransportCloses(n)
  \/ \E n \in Names : TransportOpens(n)
  \/ \E n \in Names, c \in {"open", "close"} : ConnectionUpdate(n, c)
  \/ \E n \in Names : ConnectionUpdateOpened(n)
  \/ \E n \in Names : NoConnection(n)
  \/ \E n \in Names, ok \in BOOLEAN : NoConnectionLoggedOut(n, ok)

SpecSend == InitSend /\ [][NextSend]_vars

\* -------------------------------------------------------------------- claims
\* C1: for every instance name at most one Instance object is ever created and
\* connected, under any interleaving of restoration passes.
C1_AtMostOneInstancePerName == \A n \in Names : Cardinality(liveObjs[n]) <= 1

\* C2: every write of the connection state carries the time of the observation it was
\* decided on, and a write older than the recorded timestamp is discarded: no step
\* applies a write whose observation is older than the one behind the current state.
C2_NoStaleWrite == \A n \in Names : "stale" \notin inst[n].g_tags

\* C3: the connection state is changed only through the instance's own verification
\* entry point; the health handlers and the no-connection handler never assign it.
C3_NoDirectWrite == \A n \in Names : "direct" \notin inst[n].g_tags

\* C4: while the transport stays not-ready under declared state open, the state is
\* downgraded exactly once and the reconnect is triggered exactly once for the outage.
C4_OncePerOutage == \A n \in Names : inst[n].g_tags \cap {"downAgain", "reconAgain"} = {}

\* C5: when a send completed less than the debounce window before the transport is
\* seen not-ready, no health sweep downgrades the state before the window has elapsed.
C5_NoDowngradeInDebounce == \A n \in Names : "early" \notin inst[n].g_tags

\* C6: when a sweep has checked an instance declared closed whose transport is ready,
\* authenticated and passes the probe, the state is open, the durable record is open
\* and exactly one correction notification was emitted.
C6_FalseDisconnectCorrected ==
  \A n \in Names : "fdChecked" \in inst[n].g_tags =>
     /\ inst[n].state = "open"
     /\ dbStatus[n] = "open"
     /\ inst[n].g_corrections = 1

\* C7: a declared state connecting is never changed by the verification that runs on
\* a read or on a health tick.
C7_ConnectingNeverAutoCorrected == \A n \in Names : "vfc" \notin inst[n].g_tags

C9_RestartBySweepAtTimeout ==
  \A n \in Names, s \in Sweeps :
     ( /\ inst[n].g_scen
       /\ hstart[s] = StartTime + CONNECTION_TIMEOUT
       /\ n \in hchecked[s] \ hthrown[s] )
     => (inst[n].g_restarts = 1 /\ inst[n].g_restartBy = StartTime + CONNECTION_TIMEOUT)

\* C9 amended: for such an instance no restart has happened while at most
\* CONNECTION_TIMEOUT has elapsed, and once the sweep of StartTime + 150 s has checked
\* it without a failed call the attempt has been restarted.
C9_RestartOnlyAfterTimeout ==
  \A n \in Names : inst[n].g_scen =>
     /\ now - StartTime <= CONNECTION_TIMEOUT => inst[n].g_restarts = 0
     /\ \A s \in Sweeps :
          ( /\ hstart[s] = StartTime + CONNECTION_TIMEOUT + HEALTH_CHECK_INTERVAL
            /\ n \in hchecked[s] \ hthrown[s] )
          => inst[n].g_restarts >= 1

\* C9 witness: the sweep of StartTime + 150 s made the first restart.
C9_RestartedBySweepAfterTimeout ==
  \E n \in Names :
     /\ inst[n].g_scen
     /\ inst[n].g_restarts = 1
     /\ inst[n].g_restartBy = StartTime + CONNECTION_TIMEOUT + HEALTH_CHECK_INTERVAL

\* C10: an exception raised by the check or recovery of one instance is caught for
\* that instance only: every name of the sweep's snapshot is either checked or still
\* to be checked, and a finished sweep has checked them all.
C10_SweepChecksWholeSnapshot ==
  \A s \in Sweeps : hchecked[s] \cup Range(hqueue[s]) = hsnapshot[s]

\* C10 witness: a finished sweep checked an instance after the check of an earlier
\* one raised.
C10_CheckedAfterThrow ==
  \E s \in Sweeps :
     /\ hpc[s] = "idle"
     /\ \E m \in hthrown[s], n \in hchecked[s] : m < n

\* C18: a write (set or hSet) that hit a shape conflict and was repaired can be read
\* back: as long as no caller has written or deleted the key since, and no repair has
\* deleted it for having the wrong shape, a read of the written shape returns the value
\* the repaired write stored.
C18_RepairedWriteReadable ==
  kwritten # NoWrite => ReadBack(redis, kwritten) = kwritten.value

\* C19: a shape conflict never leaves the key store as an exception: an operation that
\* met WRONGTYPE does not raise, and a get or hGet that met it returns null.
C19_ShapeConflictNeverRaised ==
  kstep.conflict =>
    /\ kstep.to # "raised"
    /\ (kstep.to = "ret" /\ kstep.op \in {"get", "hGet"} => kstep.res = Null)

\* A repair has failed in its repeated write and the write has returned all the same.
C19_FailedRepairReturned ==
  /\ kstep.conflict /\ kstep.pc = "retry" /\ kstep.to = "ret" /\ ~kstep.repaired
  /\ kstep.op \in {"set", "hSet"}


\* C16: a primary session record, stored by persist under the instance's id or name
\* (by the first write or by the write repeated after a shape conflict), has no
\* expiry; the keys stored with an expiry are the restoration marker, the
\* connect-start marker and the availability probe key.
C16_PrimaryRecordNeverExpires ==
  \A k \in DOMAIN redis :
    /\ (k \in PrimaryKeys /\ redis[k].type = "string" => redis[k].ttl = 0)
    /\ (redis[k].ttl > 0 => k \in MarkerKeys)

\* A persist has just stored the record by the write repeated after a shape conflict.
C16_RecordStoredByRetry ==
  /\ kstep.by = "persist" /\ kstep.repaired
  /\ redis[kstep.key].type = "string" /\ redis[kstep.key].ttl = 0

\* C17: with both tiers enabled, a persist of a record that has an id goes on to the
\* update of the durable record when its cache write has ended, whether the cache write
\* returned or failed.
C17_DurableUpdateAttempted ==
  (/\ kstep.by = "persist" /\ kstep.op = "set" /\ kstep.to \in {"ret", "raised"}
   /\ conf.redis /\ conf.db /\ kstep.key = IdKey(kstep.n))
    => task[kstep.t].pc = "dbUpdate"

\* C11: in restoreAllSessions a fallback stage is attempted only if the stage before it
\* is disabled or restored nothing: the durable-tier restore begins only with no
\* instance restored by the remote-cache stage, the file-provider restore only with
\* none restored by either stage.
C11_FallbackOnlyAfterEmptyStage ==
  /\ (spc = "db" => scount = 0)
  /\ (spc = "files" => scount = 0)

\* C20: the classifier of the self-healing sweep reports map-shaped for every key of the
\* auth namespace and scalar-shaped for every key of the plain instance-index
\* namespace (primary instance keys, connecting_time:<name>, restored:<name>): for
\* every key the sweep has classified, the expected shape is a hash exactly when the
\* key is an auth key.
C20_ClassifierMatchesNamespace ==
  slog.ev \in {"cleaned", "kept"} => (slog.hash <=> \E n \in Names : slog.key = AuthKey(n))

\* C14: the remote-cache restore never reads the record of an auxiliary key: a key that
\* is a connect-timer, a restoration marker or an auth key of some instance is skipped
\* before the read.
C14_NoReadOfAuxiliaryKey ==
  slog.ev = "read" =>
    \A n \in Names : slog.key \notin {ConnectingTimeKey(n), RestoredKey(n), AuthKey(n)}

\* C13: no restoration pass registers an instance whose last persisted connection
\* status is closed, whichever tier supplies the record: every instance that the pass
\* has registered has a last persisted status of open or connecting.
C13_ClosedNeverRestored ==
  \A n \in Names : waInstances[n] \notin {None, PreObj} => dbStatus[n] # "close"

C15_MarkerGoneAfterVerification == vlog.outcome # "none" => ~vlog.marker

\* C30: each run of the deferred verification of a restored instance has one outcome,
\* decided by the declared state: connecting, one further check is scheduled and no
\* reconnection is started; closed, or open without client or instanceId, one
\* reconnection is started and no check is scheduled; open with both, neither; and the
\* return from the reconnection starts and schedules nothing.
C30_VerificationOutcome ==
  LET reconnect == vlog.st = "close" \/ (vlog.st = "open" /\ ~vlog.functional) IN
  /\ vlog.st = "connecting" => vlog.scheduled = 1 /\ vlog.reconnects = 0
  /\ reconnect => vlog.reconnects = 1 /\ vlog.scheduled = 0
  /\ vlog.st = "open" /\ vlog.functional => vlog.reconnects = 0 /\ vlog.scheduled = 0
  /\ vlog.st = "returned" => vlog.reconnects = 0 /\ vlog.scheduled = 0

\* A verification found its instance still connecting and scheduled the next check.
C30_RescheduledWhileConnecting ==
  /\ vlog.st = "connecting"
  /\ vlog.outcome = "rescheduled"
  /\ vtimer[vlog.n] = 1

\* C21: at the expiry of the eviction timer of an instance that is not open, with the
\* persistence tier unreachable, recovery from the durable tier is attempted before any
\* logout or removal: the instance is logged out or handed to removal only after a
\* recovery that failed.
C21_RecoveryBeforeLogout ==
  (~evict.reachable /\ (evict.loggedOut \/ evict.pc = "remove" \/ evict.removed)) =>
    evict.recovery = "failed"

\* C22: at expiry, an instance that is not open, was not recovered and is not
\* connecting is logged out (the logout of the transport is invoked) and then removed
\* from the registry: the instance that the closed branch hands to removal has been
\* logged out.
C22_LoggedOutThenRemoved ==
  evict.ev \in {"emitClosed", "removed"} => evict.loggedOut

\* C23: whatever signals and shutdown() calls arrive, the drain is started at most
\* once; a trigger that arrives while the shutdown is in progress starts no drain.
C23_AtMostOneDrain ==
  /\ shut.drains <= 1
  /\ Cardinality({j \in DOMAIN shut.log : shut.log[j].ev = "stopHealth"}) <= 1
  /\ shut.ignored > 0 => shut.drains = 1

\* A trigger arrived while the persists of the first drain were in flight.
C23_TriggerWhileDraining == shut.ignored > 0 /\ shut.pc = "persist" /\ shut.saving # {}

\* C24: once shutdown is initiated the process exits; with code 0 only if the drain
\* completed before the deadline, and with a nonzero code if it did not.
C24_AlwaysTerminates ==
  /\ shut.isShuttingDown ~> (shut.exit # Running)
  /\ [](shut.exit = 0 =>
         /\ shut.log # <<>> /\ shut.log[Len(shut.log)] = Event("released", None)
         /\ shut.t < shut.deadline)
  /\ []((shut.exit # Running /\ shut.pc = "exited"
         /\ shut.log[Len(shut.log)] # Event("released", None)) => shut.exit # 0)

\* The process was ended at the deadline while a persist had not returned.
C24_ForcedAtDeadline == shut.exit = 1 /\ shut.t = shut.deadline /\ shut.saving # {}

\* C25: the health job is stopped before any persist begins, no close begins before
\* the persist of every registered instance has settled, and the release of the
\* resources begins only after every close has settled.
C25_DrainOrdered ==
  LET log == shut.log IN
    \A i \in DOMAIN log :
      /\ log[i].ev = "persist" => Before(log, Event("stopHealth", None), i)
      /\ log[i].ev = "close" =>
            \A n \in Registered : /\ Before(log, Event("persist", n), i)
                                  /\ Before(log, Event("settled", n), i)
      /\ log[i].ev = "cleanup" =>
            \A n \in Registered : /\ Before(log, Event("close", n), i)
                                  /\ Before(log, Event("closed", n), i)

\* Both instances were persisted, one of the persists failed, and the drain went on
\* to the closes and the release.
C25_DrainedAfterFailedPersist ==
  shut.pc = "cleanup" /\ shut.k = NumInstances /\ shut.failed /\ shut.raised = {}

C27_FailureExitsNonzero ==
  (shut.failed /\ shut.exit # Running /\ shut.t < shut.deadline) =>
     /\ shut.exit # 0
     /\ \E j \in DOMAIN shut.log : shut.log[j] = Event("released", None)

\* C28: a send for an instance whose state, as the verifying read returned it, is not
\* open is rejected before the sender is called, with an error that names the instance
\* and that state; the sender is called only for a registered instance whose state is
\* open and whose client and instanceId are present.
C28_SendOnlyWhenOpen ==
  send.n # None =>
    /\ (send.registered /\ send.state # "open") =>
          /\ ~send.invoked
          /\ send.error.name = InstanceName(send.n)
          /\ send.error.state = send.state
    /\ send.invoked <=> (send.registered /\ send.state = "open" /\ send.client /\ send.hasId)
    /\ send.invoked <=> send.error = NoError

\* A send for an instance that is connecting was rejected.
C28_RejectedWhileConnecting ==
  /\ send.n # None /\ send.registered /\ send.state = "connecting"
  /\ ~send.invoked /\ send.error.state = "connecting"

C31_GraceWindowRespected ==
  /\ evict.young => /\ evict.ev = "extended" /\ evict.pc = "armed"
                    /\ ~evict.loggedOut /\ ~evict.removed
  /\ evict.ev = "open" => /\ evict.pc = "done" /\ ~evict.loggedOut /\ ~evict.removed
                          /\ waInstances[evict.n] # None

\* C32: a restoration pass leaves the credentials of every instance as they were: an
\* entry auth:<name> that is a hash is neither deleted nor rewritten.
C32_CredentialsUntouched ==
  \A n \in Names :
    AuthKey(n) \in DOMAIN redis => redis[AuthKey(n)] = EntryLeft(AuthKey(n), dbStatus)

\* C33: the record that persist stored under the id of an instance is not deleted by
\* the sweep of the next pass and is not passed over by its remote-cache restore.
C33_PersistedRecordRestored ==
  \A n \in Names :
    /\ (IdKey(n) \in DOMAIN redis /\ spc \in {"cleanup", "redisLoop", "redisRestore"}) =>
          redis[IdKey(n)] = EntryLeft(IdKey(n), dbStatus)
    /\ slog.ev = "skipped" => slog.key # IdKey(n)

\* What a recovery action of the health monitor changes of an instance: the declared
\* state, the socket and the connect attempt in flight.
Recoverable(i) == <<i.state, i.wsOpen, i.attempt>>

\* C35: once stopHealthMonitoring has returned and while the process runs, no step of
\* a health sweep writes a state, closes a socket, starts a reconnect or updates the
\* durable record of any instance.
C35_NoRecoveryAfterStop ==
  [][(shut.health = "stopped" /\ shut.exit = Running /\ <<hpc, hqueue>>' # <<hpc, hqueue>>)
       => /\ \A n \in Names : Recoverable(inst'[n]) = Recoverable(inst[n])
          /\ dbStatus' = dbStatus]_vars

\* C36: once the remove.instance handler has ended for a registered name, with its
\* webhook delivered or rejected, the name is absent from the registry.
C36_RemoveEventUnregisters ==
  evict.ev \in {"removed", "webhookRejected"} => waInstances[evict.n] = None

\* C37: while the instance whose eviction timer has expired at least once is
\* registered and not open, a timer is pending for it or the timer's callback is still
\* at work on it.
C37_TimerPendingUntilRemoved ==
  (/\ evict.expiries > 0
   /\ waInstances[evict.n] # None
   /\ inst[evict.n].state # "open") => evict.pc # "done"

\* C38: the counter of a restoration pass goes up only at the end of an iteration in
\* which the pass itself wrote the record's name into the registry.
C38_CountsOnlyRegistered ==
  [][\A p \in Passes :
       rcount'[p] > rcount[p] =>
         /\ rpc[p] = "markRestored"
         /\ waInstances[Head(rqueue[p])] # None]_vars

\* The state a Baileys instance was registered with when the drain started: it holds
\* a client exactly when it was open, and the close step leaves the client in place.
DeclaredBeforeClose(n) == IF inst[n].client THEN "open" ELSE "close"

\* C39: the connection status the drain persists for a Baileys instance, in the cache
\* and in the durable record, is the state the instance declared before the drain
\* closed its transport: an instance that was open is persisted as open.
C39_PreCloseStatePersisted ==
  \A n \in Registered :
    inst[n].integration = Baileys =>
      /\ redis[IdKey(n)] # NoKey =>
            Parse(redis[IdKey(n)].str).connectionStatus = DeclaredBeforeClose(n)
      /\ dbStatus[n] # "open" => dbStatus[n] = DeclaredBeforeClose(n)

\* An instance that was open has been closed by the drain and its cache record, written
\* by the drain, says open.
C39_OpenPersistedThenClosed ==
  \E n \in Registered :
    /\ inst[n].integration = Baileys /\ inst[n].client /\ inst[n].state = "close"
    /\ redis[IdKey(n)] # NoKey
    /\ Parse(redis[IdKey(n)].str).connectionStatus = "open"
    /\ shut.pc \in {"cleanup", "exited"}

\* C40: a run of the deferred verification schedules a further check only when its
\* instance is registered and connecting; after a run that found the instance open,
\* closed or no longer registered, and after the return of its reconnection, no
\* verification timer is pending for that name.
C40_VerificationChainEnds ==
  /\ vlog.scheduled > 0 => vlog.st = "connecting" /\ waInstances[vlog.n] # None
  /\ (vlog.n # None /\ vlog.st # "connecting") => vtimer[vlog.n] = 0

\* A verification found its registered instance open and left no timer behind.
C40_ChainEndedOnOpen ==
  /\ vlog.st = "open"
  /\ vlog.outcome = "passed"
  /\ waInstances[vlog.n] # None
  /\ vtimer[vlog.n] = 0

\* C34: at most one health sweep is in progress at any time, and the health monitor
\* never waits for two calls of connectToWhatsapp of the same instance at once.
C34_OneSweepAtATime ==
  /\ Cardinality({s \in Sweeps : hpc[s] # "idle"}) <= 1
  /\ \A s, s2 \in Sweeps :
       (s # s2 /\ hpc[s] = "connectToWhatsapp" /\ hpc[s2] = "connectToWhatsapp") =>
          Head(hqueue[s]) # Head(hqueue[s2])

====
